---- MODULE Spec2Model ----
(***************************************************************************)
(* Azure architecture map: the interaction callback (callbacks.py), the    *)
(* SQLite snapshot store and the helpers (utils/helpers.py), and the       *)
(* start-up seeding (layout.py).                                           *)
(*                                                                         *)
(* Python values are modelled as follows.                                  *)
(*   str    a sequence of one-character strings; a description, which no   *)
(*          code looks into, is a string                                   *)
(*   dict   a function whose domain is the set of its keys                 *)
(*   list   a sequence                                                     *)
(*   float  zoom is counted in hundredths (1.0 is 100); pan in whole units *)
(*   None   for a load result, a record with ok = FALSE                    *)
(***************************************************************************)
EXTENDS Integers, Sequences, FiniteSets, TLC

VARIABLES
    elements,     \* cytoscape-graph.elements of the session
    zoom,         \* cytoscape-graph.zoom of the session
    pan,          \* cytoscape-graph.pan of the session
    ui,           \* the eight remaining outputs of handle_interactions
    tapNodeData,  \* cytoscape-graph.tapNodeData
    db,           \* committed content of graph_state.db: rows and sqlite_sequence
    conns,        \* per request: the open sqlite3 connection and its progress
    committed,    \* history: the state passed to the latest committed save, <<>> if none
    last,         \* history: the last dispatch, its inputs, store calls and outcome,
                  \* and the query of the dispatch before it if that was a search
    steps,        \* number of dispatches and store requests so far
    call          \* a helper called on its own: its name, arguments and result

vars == <<elements, zoom, pan, ui, tapNodeData, db, conns, committed, last, steps, call>>

-----------------------------------------------------------------------------
(* Bounds of the model *)

MaxDispatch == 3      \* dispatches explored per run of the reducer
MaxRequests == 2      \* store requests explored per run of the store

-----------------------------------------------------------------------------
(* Python str operations *)

UpperCase == <<"A","B","C","D","E","F","G","H","I","J","K","L","M",
               "N","O","P","Q","R","S","T","U","V","W","X","Y","Z">>
LowerCase == <<"a","b","c","d","e","f","g","h","i","j","k","l","m",
               "n","o","p","q","r","s","t","u","v","w","x","y","z">>

lower_char(c) ==
    IF \E i \in 1..26 : UpperCase[i] = c
    THEN LowerCase[CHOOSE i \in 1..26 : UpperCase[i] = c]
    ELSE c

\* str.lower()
lower(s) == [i \in 1..Len(s) |-> lower_char(s[i])]

\* a in b, for strings
contains(a, b) ==
    \E i \in 0..(Len(b) - Len(a)) : SubSeq(b, i + 1, i + Len(a)) = a

\* str.replace(old, new) for one-character old and new
replace_char(s, old, new) == [i \in 1..Len(s) |-> IF s[i] = old THEN new ELSE s[i]]

IsSpace(c) == c \in {" ", "\t", "\n"}

RECURSIVE split(_)
\* str.split(): the words between runs of whitespace
split(s) ==
    IF s = <<>> THEN <<>>
    ELSE IF IsSpace(Head(s)) THEN split(Tail(s))
    ELSE LET n == IF \E i \in 1..Len(s) : IsSpace(s[i])
                  THEN (CHOOSE i \in 1..Len(s) :
                            IsSpace(s[i]) /\ \A j \in 1..(i - 1) : ~IsSpace(s[j])) - 1
                  ELSE Len(s)
         IN  <<SubSeq(s, 1, n)>> \o split(SubSeq(s, n + 1, Len(s)))

RECURSIVE join(_, _)
\* sep.join(words)
join(sep, words) ==
    IF words = <<>> THEN <<>>
    ELSE IF Len(words) = 1 THEN words[1]
    ELSE words[1] \o sep \o join(sep, Tail(words))

\* bool(s.strip()): some character is not whitespace
strip_nonempty(s) == \E i \in 1..Len(s) : ~IsSpace(s[i])

\* list.remove(x): drops the first occurrence
remove_first(l, x) ==
    LET i == CHOOSE i \in 1..Len(l) : l[i] = x /\ \A j \in 1..(i - 1) : l[j] # x
    IN  SubSeq(l, 1, i - 1) \o SubSeq(l, i + 1, Len(l))

in_list(x, l) == \E i \in 1..Len(l) : l[i] = x

-----------------------------------------------------------------------------
(* data.py: the taxonomy (the first category and the first of its subcategories) *)

S_Azure_Architectures == <<"A", "z", "u", "r", "e", "_", "A", "r", "c", "h", "i", "t", "e", "c", "t", "u", "r", "e", "s">>
S_Azure_Architectures_label == <<"A", "z", "u", "r", "e", " ", "A", "r", "c", "h", "i", "t", "e", "c", "t", "u", "r", "e", "s">>
S_Compute == <<"C", "o", "m", "p", "u", "t", "e">>
S_Virtual_Machines == <<"V", "i", "r", "t", "u", "a", "l", "_", "M", "a", "c", "h", "i", "n", "e", "s">>

central_node ==
    [id |-> S_Azure_Architectures,
     label |-> S_Azure_Architectures_label,
     description |-> "Central node for Azure Architectures"]

\* an ordered mapping is a sequence of key/value pairs
primary_nodes ==
    << [k |-> S_Compute, v |-> "Compute services in Azure"] >>

subnodes ==
    << [k |-> S_Compute,
        v |-> << [k |-> S_Virtual_Machines,
                  v |-> "Virtual Machines (VMs) provide scalable computing resources in Azure."] >>] >>

-----------------------------------------------------------------------------
(* utils/helpers.py: colours *)

PRIMARY_NODE_COLORS ==
    << <<"#", "1", "f", "7", "7", "b", "4">>,
       <<"#", "f", "f", "7", "f", "0", "e">>,
       <<"#", "2", "c", "a", "0", "2", "c">>,
       <<"#", "d", "6", "2", "7", "2", "8">>,
       <<"#", "9", "4", "6", "7", "b", "d">>,
       <<"#", "8", "c", "5", "6", "4", "b">>,
       <<"#", "e", "3", "7", "7", "c", "2">>,
       <<"#", "7", "f", "7", "f", "7", "f">>,
       <<"#", "b", "c", "b", "d", "2", "2">>,
       <<"#", "1", "7", "b", "e", "c", "f">> >>

HexDigits == <<"0","1","2","3","4","5","6","7","8","9","A","B","C","D","E","F">>

IsHexDigit(c) == \E i \in 1..16 : HexDigits[i] = c \/ lower_char(HexDigits[i]) = c

HexValue(c) ==
    (CHOOSE i \in 1..16 : HexDigits[i] = c \/ lower_char(HexDigits[i]) = c) - 1

\* str.strip(): the whitespace at both ends removed
RECURSIVE strip(_)
strip(s) ==
    IF s = <<>> THEN s
    ELSE IF IsSpace(Head(s)) THEN strip(Tail(s))
    ELSE IF IsSpace(s[Len(s)]) THEN strip(SubSeq(s, 1, Len(s) - 1))
    ELSE s

\* the digits int(s, 16) reads in a slice of at most two characters: whitespace
\* around them and one sign before them are accepted
hex_body(s) ==
    LET t == strip(s)
    IN  IF t # <<>> /\ Head(t) \in {"+", "-"} THEN Tail(t) ELSE t

\* int(s, 16) on a two-character slice: ValueError unless it holds hex digits
IsHexPair(s) == hex_body(s) # <<>> /\ \A i \in 1..Len(hex_body(s)) : IsHexDigit(hex_body(s)[i])

RECURSIVE int16(_)
int16(s) == IF s = <<>> THEN 0 ELSE 16 * int16(SubSeq(s, 1, Len(s) - 1)) + HexValue(s[Len(s)])

\* int(s, 16) with its sign
int_base16(s) ==
    IF strip(s) # <<>> /\ Head(strip(s)) = "-" THEN 0 - int16(hex_body(s)) ELSE int16(hex_body(s))

\* '{0:02X}'.format(n)
RECURSIVE HexDigitsOf(_)
HexDigitsOf(n) == IF n < 16 THEN <<HexDigits[n + 1]>>
                  ELSE HexDigitsOf(n \div 16) \o <<HexDigits[(n % 16) + 1]>>

format02X(n) ==
    IF n < 0 THEN <<"-">> \o HexDigitsOf(0 - n)
    ELSE IF n < 16 THEN <<"0">> \o HexDigitsOf(n)
    ELSE HexDigitsOf(n)

\* hex_color.lstrip('#')
RECURSIVE lstrip_hash(_)
lstrip_hash(s) == IF s # <<>> /\ Head(s) = "#" THEN lstrip_hash(Tail(s)) ELSE s

\* hex_color[a:b], 0-based and clipped like a Python slice
slice(s, a, b) == SubSeq(s, a + 1, IF b < Len(s) THEN b ELSE Len(s))

RECURSIVE double_chars(_)
double_chars(s) == IF s = <<>> THEN <<>> ELSE <<Head(s), Head(s)>> \o double_chars(Tail(s))

\* a channel that is darkened: c - c * factor
lighten_channel_darkens(c, num, den) == (c * den - c * num) \div den

\* int(c + (255 - c) * factor), factor = num / den; int() drops the fraction
lighten_channel(c, num, den) ==
    LET x == c * den + (255 - c) * num
    IN  IF x >= 0 THEN x \div den ELSE 0 - ((0 - x) \div den)

lighten_color(hex_color, num, den) ==
    LET stripped == lstrip_hash(hex_color)
        hex      == IF Len(stripped) = 3 THEN double_chars(stripped) ELSE stripped
        rs       == slice(hex, 0, 2)
        gs       == slice(hex, 2, 4)
        bs       == slice(hex, 4, 6)
    IN  IF IsHexPair(rs) /\ IsHexPair(gs) /\ IsHexPair(bs)
        THEN <<"#">> \o format02X(lighten_channel(int_base16(rs), num, den))
                     \o format02X(lighten_channel(int_base16(gs), num, den))
                     \o format02X(lighten_channel(int_base16(bs), num, den))
        ELSE hex    \* except: return hex_color, by then stripped of its '#'

-----------------------------------------------------------------------------
(* utils/helpers.py: load_graph_elements *)

RECURSIVE lookup_color(_, _)
\* next((node.data.color for node in nodes if node.data.id == parent_id), '#FFFFFF')
lookup_color(nodes, parent_id) ==
    IF nodes = <<>> THEN <<"#", "F", "F", "F", "F", "F", "F">>
    ELSE IF Head(nodes).data.id = parent_id THEN Head(nodes).data.color
    ELSE lookup_color(Tail(nodes), parent_id)

\* an edge that names its target by the label shown, not by the id
edge_element_to_label(source, target) ==
    [data |-> [source |-> source, target |-> replace_char(target, "_", " "),
               id |-> source \o <<"_", "t", "o", "_">> \o target]]

edge_element(source, target) ==
    [data |-> [source |-> source, target |-> target,
               id |-> source \o <<"_", "t", "o", "_">> \o target]]

\* a palette that does not cycle: categories past the last colour share it
primary_element_no_cycle(i, primary) ==
    [data |-> [id |-> primary.k,
               label |-> replace_char(primary.k, "_", " "),
               description |-> primary.v,
               notes |-> <<>>,
               color |-> PRIMARY_NODE_COLORS[IF i > Len(PRIMARY_NODE_COLORS)
                                             THEN Len(PRIMARY_NODE_COLORS) ELSE i]],
     classes |-> <<"p", "r", "i", "m", "a", "r", "y", "-", "n", "o", "d", "e">>]

primary_element(i, primary) ==
    [data |-> [id |-> primary.k,
               label |-> replace_char(primary.k, "_", " "),
               description |-> primary.v,
               notes |-> <<>>,
               color |-> PRIMARY_NODE_COLORS[((i - 1) % Len(PRIMARY_NODE_COLORS)) + 1]],
     classes |-> <<"p", "r", "i", "m", "a", "r", "y", "-", "n", "o", "d", "e">>]

sub_element(child, parent_color) ==
    [data |-> [id |-> child.k,
               label |-> replace_char(child.k, "_", " "),
               description |-> child.v,
               notes |-> <<>>,
               color |-> lighten_color(parent_color, 6, 10)],
     classes |-> <<"s", "u", "b", "n", "o", "d", "e">>]

RECURSIVE add_children(_, _, _)
\* the inner loop over children.items(): acc holds nodes and edges so far
add_children(acc, parent_id, children) ==
    IF children = <<>> THEN acc
    ELSE LET child == Head(children)
             parent_color == lookup_color(acc.nodes, parent_id)
         IN  add_children(
                 [nodes |-> Append(acc.nodes, sub_element(child, parent_color)),
                  edges |-> Append(acc.edges, edge_element(parent_id, child.k))],
                 parent_id, Tail(children))

RECURSIVE add_subnodes(_, _)
\* the outer loop over subnodes.items()
add_subnodes(acc, subs) ==
    IF subs = <<>> THEN acc
    ELSE add_subnodes(add_children(acc, Head(subs).k, Head(subs).v), Tail(subs))

load_graph_elements(central, primaries, subs) ==
    LET central_element ==
            [data |-> [id |-> central.id,
                       label |-> replace_char(central.label, "_", " "),
                       description |-> central.description,
                       notes |-> <<>>,
                       color |-> <<"#", "8", "7", "C", "E", "E", "B">>],
             classes |-> <<"c", "e", "n", "t", "r", "a", "l", "-", "n", "o", "d", "e">>]
        primary_elems == [i \in 1..Len(primaries) |-> primary_element(i, primaries[i])]
        primary_edges == [i \in 1..Len(primaries) |-> edge_element(central.id, primaries[i].k)]
        built == add_subnodes([nodes |-> <<central_element>> \o primary_elems,
                               edges |-> primary_edges], subs)
    IN  built.nodes \o built.edges

-----------------------------------------------------------------------------
(* json.dumps / json.loads.  The text is its sequence of tokens: "{", "}",  *)
(* "[", "]", an object key, a string and a number.                          *)

Tok(type, key, str, num) == [t |-> type, k |-> key, s |-> str, n |-> num]

Punct(type) == Tok(type, "", <<>>, 0)

\* the keys of a dict, in a fixed order of emission
KeyOrder == <<"elements", "zoom", "pan", "x", "y", "data", "classes", "id", "label",
              "description", "notes", "color", "source", "target">>

RECURSIVE flatten(_)
flatten(ls) == IF ls = <<>> THEN <<>> ELSE Head(ls) \o flatten(Tail(ls))

Key(k) == Tok("key", k, <<>>, 0)

\* the keys of KeyOrder that dict d holds, in that order
keys_of(d) == SelectSeq(KeyOrder, LAMBDA k : k \in DOMAIN d)

dumps_str(v) == <<Tok("str", "", v, 0)>>

dumps_num(v) == <<Tok("num", "", <<>>, v)>>

\* a dict whose values are strings: the data of an element
dumps_str_dict(d) ==
    <<Punct("{")>>
    \o flatten([i \in 1..Len(keys_of(d)) |->
                    <<Key(keys_of(d)[i])>> \o dumps_str(d[keys_of(d)[i]])])
    \o <<Punct("}")>>

\* a dict whose values are numbers: the pan
dumps_num_dict(d) ==
    <<Punct("{")>>
    \o flatten([i \in 1..Len(keys_of(d)) |->
                    <<Key(keys_of(d)[i])>> \o dumps_num(d[keys_of(d)[i]])])
    \o <<Punct("}")>>

dumps_element_member(k, v) == IF k = "data" THEN dumps_str_dict(v) ELSE dumps_str(v)

\* an encoder that writes only the data of an element
dumps_element_data_only(e) ==
    <<Punct("{")>> \o <<Key("data")>> \o dumps_str_dict(e.data) \o <<Punct("}")>>

dumps_element(e) ==
    <<Punct("{")>>
    \o flatten([i \in 1..Len(keys_of(e)) |->
                    <<Key(keys_of(e)[i])>> \o dumps_element_member(keys_of(e)[i], e[keys_of(e)[i]])])
    \o <<Punct("}")>>

dumps_elements(es) ==
    <<Punct("[")>> \o flatten([i \in 1..Len(es) |-> dumps_element(es[i])]) \o <<Punct("]")>>

dumps_state_member(k, v) ==
    CASE k = "elements" -> dumps_elements(v)
      [] k = "zoom"     -> dumps_num(v)
      [] k = "pan"      -> dumps_num_dict(v)

\* json.dumps(state) for state = {'elements': ..., 'zoom': ..., 'pan': ...}
json_dumps(state) ==
    <<Punct("{")>>
    \o flatten([i \in 1..Len(keys_of(state)) |->
                    <<Key(keys_of(state)[i])>>
                    \o dumps_state_member(keys_of(state)[i], state[keys_of(state)[i]])])
    \o <<Punct("}")>>

ParseFail == [ok |-> FALSE, v |-> <<>>, i |-> 0]

\* the dict built from key/value pairs; a repeated key keeps its last value
dict_of(pairs) ==
    [k \in {pairs[j].k : j \in 1..Len(pairs)} |->
        pairs[CHOOSE j \in 1..Len(pairs) :
                 pairs[j].k = k /\ \A j2 \in (j + 1)..Len(pairs) : pairs[j2].k # k].v]

RECURSIVE parse_value(_, _), parse_members(_, _, _), parse_items(_, _, _)
parse_value(toks, i) ==
    IF i > Len(toks) THEN ParseFail
    ELSE CASE toks[i].t = "str" -> [ok |-> TRUE, v |-> toks[i].s, i |-> i + 1]
           [] toks[i].t = "num" -> [ok |-> TRUE, v |-> toks[i].n, i |-> i + 1]
           [] toks[i].t = "{"   -> parse_members(toks, i + 1, <<>>)
           [] toks[i].t = "["   -> parse_items(toks, i + 1, <<>>)
           [] OTHER             -> ParseFail

parse_members(toks, i, acc) ==
    IF i > Len(toks) THEN ParseFail
    ELSE IF toks[i].t = "}" THEN [ok |-> TRUE, v |-> dict_of(acc), i |-> i + 1]
    ELSE IF toks[i].t = "key"
         THEN LET r == parse_value(toks, i + 1)
              IN  IF r.ok
                  THEN parse_members(toks, r.i, Append(acc, [k |-> toks[i].k, v |-> r.v]))
                  ELSE ParseFail
         ELSE ParseFail

parse_items(toks, i, acc) ==
    IF i > Len(toks) THEN ParseFail
    ELSE IF toks[i].t = "]" THEN [ok |-> TRUE, v |-> acc, i |-> i + 1]
    ELSE LET r == parse_value(toks, i)
         IN  IF r.ok THEN parse_items(toks, r.i, Append(acc, r.v)) ELSE ParseFail

\* a decoder that answers an empty object where it should raise
json_loads_lenient(toks) ==
    LET r == parse_value(toks, 1)
    IN  IF r.ok /\ r.i = Len(toks) + 1 THEN [ok |-> TRUE, v |-> r.v]
        ELSE [ok |-> TRUE, v |-> <<>>]

\* json.loads(text): ok = FALSE stands for JSONDecodeError
json_loads(toks) ==
    LET r == parse_value(toks, 1)
    IN  IF r.ok /\ r.i = Len(toks) + 1 THEN [ok |-> TRUE, v |-> r.v]
        ELSE [ok |-> FALSE, v |-> <<>>]

-----------------------------------------------------------------------------
(* SQLite: the table graph_state and the statements run on it.  A table    *)
(* value holds the rows and the AUTOINCREMENT high-water mark.  A           *)
(* connection works on its own copy, which commit makes the durable one.    *)

EmptyTable == [rows |-> <<>>, seq |-> 0]

\* a save that leaves the old rows in place
sql_delete_nothing(table) == table

\* DELETE FROM graph_state
sql_delete(table) == [table EXCEPT !.rows = <<>>]

\* INSERT INTO graph_state (state) VALUES (?)
sql_insert(table, state_json) ==
    [rows |-> Append(table.rows, [id |-> table.seq + 1, state |-> state_json]),
     seq  |-> table.seq + 1]

\* SELECT state FROM graph_state ORDER BY id DESC LIMIT 1, then fetchone()
sql_select_latest(table) ==
    IF table.rows = <<>> THEN <<>>
    ELSE LET j == CHOOSE j \in 1..Len(table.rows) :
                      \A j2 \in 1..Len(table.rows) : table.rows[j2].id <= table.rows[j].id
         IN  <<table.rows[j].state>>

\* a connection that ran the statements of the table value dirty altogether
sql_uncommitted_dirty(durable, work) == work

\* what the other connections read while a statement is not committed
sql_uncommitted(durable, work) == durable

\* conn.commit(): the connection's copy becomes the durable table
sql_commit(durable, work) == work

\* a connection in autocommit mode: every statement is durable at once
sql_close_autocommit(durable, work) == work

\* conn.close() in get_db_connection's finally: what was not committed is rolled back
sql_close(durable, work) == durable

\* the points at which a store call can fail with sqlite3.Error
SaveFaults == {"none", "connect", "delete", "insert", "commit"}
LoadFaults == {"none", "connect", "select"}

\* save_graph_state run to completion with no other connection open
save_graph_state(durable, state, fault) ==
    LET state_json == json_dumps(state)
        deleted    == sql_delete(durable)
        inserted   == sql_insert(deleted, state_json)
    IN  CASE fault = "connect" -> [ok |-> FALSE, db |-> durable]
          [] fault = "delete"  -> [ok |-> FALSE, db |-> sql_close(durable, durable)]
          [] fault = "insert"  ->
                [ok |-> FALSE, db |-> sql_close(sql_uncommitted(durable, deleted), deleted)]
          [] fault = "commit"  ->
                [ok |-> FALSE, db |-> sql_close(sql_uncommitted(durable, inserted), inserted)]
          [] OTHER             ->
                LET after_commit == sql_commit(durable, inserted)
                IN  [ok |-> TRUE, db |-> sql_close(after_commit, after_commit)]

\* what load_graph_state returns for the fetched row
decode_row(row) ==
    IF row = <<>> THEN [ok |-> FALSE, state |-> <<>>]
    ELSE LET parsed == json_loads(row[1])
         IN  IF parsed.ok THEN [ok |-> TRUE, state |-> parsed.v]
             ELSE [ok |-> FALSE, state |-> <<>>]

\* load_graph_state run to completion: ok = FALSE stands for None
load_graph_state(durable, fault) ==
    IF fault # "none" THEN [ok |-> FALSE, state |-> <<>>]
    ELSE decode_row(sql_select_latest(durable))

-----------------------------------------------------------------------------
(* utils/helpers.py: perform_fuzzy_search *)

\* a matcher that compares the cases as they are typed
perform_fuzzy_search_case_sensitive(search_value, all_labels) ==
    IF search_value = <<>> THEN <<>>
    ELSE SelectSeq(all_labels, LAMBDA label : contains(search_value, label))

RECURSIVE is_subsequence(_, _)
is_subsequence(a, b) ==
    IF a = <<>> THEN TRUE
    ELSE IF b = <<>> THEN FALSE
    ELSE IF Head(a) = Head(b) THEN is_subsequence(Tail(a), Tail(b))
    ELSE is_subsequence(a, Tail(b))

\* a fuzzy matcher: the characters of the query occur in the label in that order
perform_fuzzy_search_subsequence(search_value, all_labels) ==
    IF search_value = <<>> THEN <<>>
    ELSE SelectSeq(all_labels, LAMBDA label : is_subsequence(lower(search_value), lower(label)))

perform_fuzzy_search(search_value, all_labels) ==
    IF search_value = <<>> THEN <<>>
    ELSE SelectSeq(all_labels, LAMBDA label : contains(lower(search_value), lower(label)))

-----------------------------------------------------------------------------
(* callbacks.py: handle_interactions *)

zoom_factor == 20     \* 0.2
MinZoom == 50         \* 0.5
MaxZoom == 200        \* 2.0
DefaultZoom == 100    \* 1.0

DefaultPan == [x |-> 0, y |-> 0]

S_highlighted == <<"h", "i", "g", "h", "l", "i", "g", "h", "t", "e", "d">>

Max(a, b) == IF a >= b THEN a ELSE b
Min(a, b) == IF a <= b THEN a ELSE b

\* a reducer that forgets the clamp
clamp_zoom_forgotten(z) == z

\* max(0.5, min(new_zoom, 2.0))
clamp_zoom(z) == Max(MinZoom, Min(z, MaxZoom))

\* dict.get(k, default)
get(d, k, default) == IF k \in DOMAIN d THEN d[k] ELSE default

\* d[k] = v on a dict that may lack k
set_key(d, k, v) == [x \in DOMAIN d \cup {k} |-> IF x = k THEN v ELSE d[x]]

\* the content of node-info: a fixed message, or the Div built from a tapped node
Info(kind) == [kind |-> kind, label |-> <<>>, description |-> ""]

\* "Initialize default outputs"
default_outputs(inp) ==
    [elements |-> inp.current_elements,      \* copy.deepcopy(current_elements)
     zoom |-> inp.current_zoom,
     pan |-> inp.current_pan,
     node_info |-> Info("Click on a node to see details."),
     rendered_notes |-> <<>>,
     rendered_notes_style |-> "none",
     node_notes_value |-> <<>>,
     notes_section_style |-> "none",
     save_alert |-> FALSE,
     load_alert |-> FALSE,
     note_save_alert |-> FALSE]

Return(out, durable, calls) == [kind |-> "return", out |-> out, db |-> durable, calls |-> calls]

\* a reducer that returns the default outputs where it should prevent the update
PreventUpdate_returns_defaults(inp, durable) ==
    [kind |-> "return", out |-> default_outputs(inp), db |-> durable, calls |-> <<>>]

\* raise PreventUpdate: Dash leaves every output as it is
PreventUpdate(inp, durable) ==
    [kind |-> "PreventUpdate", out |-> default_outputs(inp), db |-> durable, calls |-> <<>>]

\* an exception that leaves the callback: Dash logs it and updates no output
Raise(inp, durable, calls) ==
    [kind |-> "raise", out |-> default_outputs(inp), db |-> durable, calls |-> calls]

\* a reducer whose zoom-out goes up and whose reset does nothing
zoom_step_wrong(triggered_id, clicks, z) ==
    IF triggered_id = "zoom-in" /\ clicks > 0 THEN z + zoom_factor + zoom_factor
    ELSE IF triggered_id = "zoom-out" /\ clicks > 0 THEN z + zoom_factor
    ELSE z

\* the zoom the three zoom buttons give, before it is clamped
zoom_step(triggered_id, clicks, z) ==
    IF triggered_id = "zoom-in" /\ clicks > 0 THEN z + zoom_factor
    ELSE IF triggered_id = "zoom-out" /\ clicks > 0 THEN z - zoom_factor
    ELSE IF triggered_id = "reset-zoom" /\ clicks > 0 THEN DefaultZoom
    ELSE z

\* zoom buttons that also put the pan back to the origin
handle_zoom_recentres(triggered_id, inp, out, durable) ==
    [kind |-> "return",
     out |-> [out EXCEPT !.zoom = clamp_zoom(zoom_step(triggered_id, inp.n_clicks, out.zoom)),
                         !.pan = DefaultPan],
     db |-> durable, calls |-> <<>>]

\* inp.absent names the inputs that are None; with current_zoom None,
\* new_zoom += zoom_factor and min(new_zoom, 2.0) raise TypeError, and only
\* a counted reset, which assigns 1.0 first, gets through
handle_zoom(triggered_id, inp, out, durable) ==
    IF "current_zoom" \in inp.absent /\ ~(triggered_id = "reset-zoom" /\ inp.n_clicks > 0)
    THEN Raise(inp, durable, <<>>)
    ELSE Return([out EXCEPT !.zoom = clamp_zoom(zoom_step(triggered_id, inp.n_clicks, out.zoom))],
                durable, <<>>)

\* a Load that keeps the current zoom and pan where the snapshot has none
handle_load_keeps_view(inp, out, durable, fault) ==
    LET loaded == load_graph_state(durable, fault)
        state  == loaded.state
        calls  == <<[op |-> "load", arg |-> <<>>]>>
    IN  IF loaded.ok /\ DOMAIN state # {}
        THEN Return([out EXCEPT !.elements = get(state, "elements", inp.current_elements),
                                !.zoom = get(state, "zoom", inp.current_zoom),
                                !.pan = get(state, "pan", inp.current_pan),
                                !.load_alert = TRUE],
                    durable, calls)
        ELSE Return(out, durable, calls)

\* a Load that opens the loaded alert whatever the store returned
handle_load_alerts_anyway(inp, out, durable, fault) ==
    LET loaded == load_graph_state(durable, fault)
        state  == loaded.state
        calls  == <<[op |-> "load", arg |-> <<>>]>>
    IN  IF loaded.ok /\ DOMAIN state # {}
        THEN Return([out EXCEPT !.elements = get(state, "elements", inp.current_elements),
                                !.zoom = get(state, "zoom", DefaultZoom),
                                !.pan = get(state, "pan", DefaultPan),
                                !.load_alert = TRUE],
                    durable, calls)
        ELSE Return([out EXCEPT !.load_alert = TRUE], durable, calls)

\* a Load that takes the elements of the snapshot and keeps the current view
handle_load_elements_only(inp, out, durable, fault) ==
    LET loaded == load_graph_state(durable, fault)
        calls  == <<[op |-> "load", arg |-> <<>>]>>
    IN  IF loaded.ok /\ DOMAIN loaded.state # {}
        THEN [kind |-> "return",
              out |-> [out EXCEPT
                         !.elements = get(loaded.state, "elements", inp.current_elements),
                         !.load_alert = TRUE],
              db |-> durable, calls |-> calls]
        ELSE [kind |-> "return", out |-> out, db |-> durable, calls |-> calls]

\* the loop that logs the node positions reads elem['data'] of every element
\* and ['id'] of every node: KeyError on an element without them
logs_positions(elems) ==
    \A i \in 1..Len(elems) :
        /\ "data" \in DOMAIN elems[i]
        /\ ("source" \notin DOMAIN elems[i].data /\ "target" \notin DOMAIN elems[i].data)
              => "id" \in DOMAIN elems[i].data

\* the stored text is a JSON object: json.loads gives a dict, which has .get
\* (of the other values only the array is modelled)
is_dict(row) == row # <<>> /\ row[1] # <<>> /\ row[1][1].t = "{"

handle_load(inp, out, durable, fault) ==
    LET loaded == load_graph_state(durable, fault)
        state  == loaded.state
        calls  == <<[op |-> "load", arg |-> <<>>]>>
    IN  IF loaded.ok /\ DOMAIN state # {}
        THEN IF ~is_dict(sql_select_latest(durable))
             THEN Raise(inp, durable, calls)        \* AttributeError: no .get
             ELSE IF ~logs_positions(get(state, "elements", inp.current_elements))
             THEN Raise(inp, durable, calls)        \* KeyError
             ELSE Return([out EXCEPT
                            !.elements = get(state, "elements", inp.current_elements),
                            !.zoom = get(state, "zoom", DefaultZoom),
                            !.pan = get(state, "pan", DefaultPan),
                            !.load_alert = TRUE],
                         durable, calls)
        ELSE Return(out, durable, calls)

state_to_save(out) == [elements |-> out.elements, zoom |-> out.zoom, pan |-> out.pan]

\* a Save that opens the alert without looking at what the store returned
handle_save_ignores_result(inp, out, durable, fault) ==
    LET saved == save_graph_state(durable, state_to_save(out), fault)
    IN  Return([out EXCEPT !.save_alert = TRUE], saved.db,
               <<[op |-> "save", arg |-> state_to_save(out)]>>)

handle_save(inp, out, durable, fault) ==
    LET saved == save_graph_state(durable, state_to_save(out), fault)
    IN  Return([out EXCEPT !.save_alert = saved.ok], saved.db,
               <<[op |-> "save", arg |-> state_to_save(out)]>>)

\* a loop that writes the note on every node and never looks at the id
update_note_every_node(elems, node_id, note_value) ==
    [i \in 1..Len(elems) |->
        IF "notes" \in DOMAIN elems[i].data
        THEN [elems[i] EXCEPT !.data = set_key(elems[i].data, "notes", note_value)]
        ELSE elems[i]]

\* a loop that falls back on the first element when no element has the id
update_note_fallback_first(elems, node_id, note_value) ==
    LET found == \E i \in 1..Len(elems) : get(elems[i].data, "id", <<"None">>) = node_id
        i == IF found
             THEN CHOOSE i \in 1..Len(elems) :
                      /\ get(elems[i].data, "id", <<"None">>) = node_id
                      /\ \A j \in 1..(i - 1) : get(elems[j].data, "id", <<"None">>) # node_id
             ELSE 1
    IN  [elems EXCEPT ![i] = [elems[i] EXCEPT !.data = set_key(elems[i].data, "notes", note_value)]]

\* elem['data'].get('id') == node_id, on an element that has its data
has_id(elem, node_id) == "data" \in DOMAIN elem /\ get(elem.data, "id", <<"None">>) = node_id

\* the for/else over new_elements: the first element with that id gets the note
update_note(elems, node_id, note_value) ==
    IF \E i \in 1..Len(elems) : has_id(elems[i], node_id)
    THEN LET i == CHOOSE i \in 1..Len(elems) :
                      /\ has_id(elems[i], node_id)
                      /\ \A j \in 1..(i - 1) : ~has_id(elems[j], node_id)
         IN  [elems EXCEPT ![i] = [elems[i] EXCEPT !.data = set_key(elems[i].data, "notes", note_value)]]
    ELSE elems

\* the loop meets an element without 'data' before it meets the id: KeyError
note_loop_raises(elems, node_id) ==
    \E j \in 1..Len(elems) :
        /\ "data" \notin DOMAIN elems[j]
        /\ \A i \in 1..(j - 1) : ~has_id(elems[i], node_id)

\* a SaveNote that does not look whether a node is selected
handle_save_note_unconditional(inp, out, durable, fault) ==
    LET node_id == get(inp.tapped_node_state, "id", <<"None">>)
        out1 == [out EXCEPT
                   !.elements = update_note(out.elements, node_id, inp.note_value),
                   !.note_save_alert = TRUE,
                   !.rendered_notes = inp.note_value,
                   !.rendered_notes_style =
                       IF strip_nonempty(inp.note_value) THEN "block" ELSE "none",
                   !.node_notes_value = inp.note_value,
                   !.notes_section_style = "block"]
        saved == save_graph_state(durable, state_to_save(out1), fault)
    IN  Return(out1, saved.db, <<[op |-> "save", arg |-> state_to_save(out1)]>>)

\* a SaveNote that opens its alert only when the store took the snapshot
handle_save_note_alert_on_success(inp, out, durable, fault) ==
    IF DOMAIN inp.tapped_node_state # {}
    THEN LET node_id == get(inp.tapped_node_state, "id", <<"None">>)
             out1 == [out EXCEPT
                        !.elements = update_note(out.elements, node_id, inp.note_value),
                        !.rendered_notes = inp.note_value,
                        !.rendered_notes_style =
                            IF strip_nonempty(inp.note_value) THEN "block" ELSE "none",
                        !.node_notes_value = inp.note_value,
                        !.notes_section_style = "block"]
             saved == save_graph_state(durable, state_to_save(out1), fault)
         IN  [kind |-> "return", out |-> [out1 EXCEPT !.note_save_alert = saved.ok],
              db |-> saved.db, calls |-> <<[op |-> "save", arg |-> state_to_save(out1)]>>]
    ELSE [kind |-> "return", out |-> out, db |-> durable, calls |-> <<>>]

handle_save_note(inp, out, durable, fault) ==
    IF DOMAIN inp.tapped_node_state # {}
            /\ note_loop_raises(out.elements, get(inp.tapped_node_state, "id", <<"None">>))
    THEN Raise(inp, durable, <<>>)
    ELSE IF DOMAIN inp.tapped_node_state # {} /\ "note_value" \in inp.absent
    THEN Raise(inp, durable, <<>>)      \* note_value.strip() on None: AttributeError
    ELSE IF DOMAIN inp.tapped_node_state # {}
    THEN LET node_id == get(inp.tapped_node_state, "id", <<"None">>)
             out1 == [out EXCEPT
                        !.elements = update_note(out.elements, node_id, inp.note_value),
                        !.note_save_alert = TRUE,
                        !.rendered_notes = inp.note_value,
                        !.rendered_notes_style =
                            IF strip_nonempty(inp.note_value) THEN "block" ELSE "none",
                        !.node_notes_value = inp.note_value,
                        !.notes_section_style = "block"]
             saved == save_graph_state(durable, state_to_save(out1), fault)
         IN  Return(out1, saved.db, <<[op |-> "save", arg |-> state_to_save(out1)]>>)
    ELSE Return(out, durable, <<>>)

\* a search that leaves the classes as they are before it marks the matches
clear_highlight_nothing(elem) == elem

\* "Remove 'highlighted' class from all nodes"
clear_highlight(elem) ==
    IF "classes" \in DOMAIN elem
    THEN LET classes == split(elem.classes)
         IN  [elem EXCEPT !.classes =
                 join(<<" ">>, IF in_list(S_highlighted, classes)
                               THEN remove_first(classes, S_highlighted)
                               ELSE classes)]
    ELSE elem

\* "Update 'classes' for each node based on whether it matches"
mark_highlight(elem, matching_labels) ==
    IF "source" \in DOMAIN elem.data /\ "target" \in DOMAIN elem.data
    THEN elem
    ELSE LET label   == get(elem.data, "label", <<>>)
             classes == split(get(elem, "classes", <<>>))
         IN  IF in_list(label, matching_labels)
             THEN set_key(elem, "classes",
                          join(<<" ">>, IF in_list(S_highlighted, classes) THEN classes
                                        ELSE Append(classes, S_highlighted)))
             ELSE set_key(elem, "classes",
                          join(<<" ">>, IF in_list(S_highlighted, classes)
                                        THEN remove_first(classes, S_highlighted)
                                        ELSE classes))

is_node(elem) == "source" \notin DOMAIN elem.data /\ "target" \notin DOMAIN elem.data

\* a search that does not clear, and flips the marker of every matching node
handle_search_toggle(inp, out, durable) ==
    LET nodes  == SelectSeq(inp.current_elements, is_node)
        labels == [i \in 1..Len(nodes) |-> get(nodes[i].data, "label", <<>>)]
        matching_labels == perform_fuzzy_search(inp.search_value, labels)
        toggle(elem) ==
            LET classes == split(get(elem, "classes", <<>>))
            IN  IF is_node(elem) /\ in_list(get(elem.data, "label", <<>>), matching_labels)
                THEN set_key(elem, "classes",
                             join(<<" ">>, IF in_list(S_highlighted, classes)
                                           THEN remove_first(classes, S_highlighted)
                                           ELSE Append(classes, S_highlighted)))
                ELSE elem
    IN  Return([out EXCEPT !.elements = [i \in 1..Len(out.elements) |-> toggle(out.elements[i])],
                           !.node_info = Info("Matching nodes highlighted.")],
               durable, <<>>)

handle_search(inp, out, durable) ==
    LET cleared == [i \in 1..Len(out.elements) |-> clear_highlight(out.elements[i])]
        nodes   == SelectSeq(inp.current_elements, is_node)
    IN  IF inp.search_value = <<>>
        THEN Return([out EXCEPT !.elements = cleared,
                                !.node_info = Info("Search cleared. All nodes are visible.")],
                    durable, <<>>)
        ELSE IF \/ \E i \in 1..Len(inp.current_elements) :
                      "data" \notin DOMAIN inp.current_elements[i]
                \/ \E i \in 1..Len(nodes) : "label" \notin DOMAIN nodes[i].data
        THEN \* KeyError in the list of labels, caught by the except clause
             Return([out EXCEPT !.elements = cleared,
                                !.node_info = Info("An error occurred during the search.")],
                    durable, <<>>)
        ELSE LET all_labels == [i \in 1..Len(nodes) |-> nodes[i].data.label]
                 matching_labels == perform_fuzzy_search(inp.search_value, all_labels)
             IN  IF matching_labels = <<>>
                 THEN Return([out EXCEPT !.elements = cleared,
                                         !.node_info = Info("No matching nodes found.")],
                             durable, <<>>)
                 ELSE Return([out EXCEPT
                                !.elements = [i \in 1..Len(cleared) |->
                                                mark_highlight(cleared[i], matching_labels)],
                                !.node_info = Info("Matching nodes highlighted.")],
                             durable, <<>>)

\* a tap that also puts the view back where it started
handle_node_tap_recentres(inp, out, durable) ==
    Return([out EXCEPT !.zoom = DefaultZoom, !.pan = DefaultPan], durable, <<>>)

handle_node_tap(inp, out, durable) ==
    IF DOMAIN inp.tapped_node_data # {}
            /\ "notes" \in DOMAIN inp.tapped_node_data /\ "tapped_notes" \in inp.absent
    THEN \* notes.strip() on None: AttributeError, caught by the except clause
         Return([out EXCEPT
                    !.node_info = Info("An error occurred while processing the node tap.")],
                durable, <<>>)
    ELSE IF DOMAIN inp.tapped_node_data # {}
    THEN LET label == get(inp.tapped_node_data, "label", <<"N", "o", " ", "L", "a", "b", "e", "l">>)
             description == get(inp.tapped_node_data, "description",
                                "No description available.")
             notes == get(inp.tapped_node_data, "notes", <<>>)
         IN  Return([out EXCEPT
                        !.node_info = [kind |-> "Div", label |-> label,
                                       description |-> description],
                        !.rendered_notes = notes,
                        !.rendered_notes_style =
                            IF strip_nonempty(notes) THEN "block" ELSE "none",
                        !.node_notes_value = notes,
                        !.notes_section_style = "block"],
                    durable, <<>>)
    ELSE Return(out, durable, <<>>)

\* a callback that acts on the entry of ctx.triggered that comes last
handle_interactions_last_fired(inp, durable, fault) ==
    IF inp.triggered = <<>> THEN PreventUpdate(inp, durable)
    ELSE LET triggered_id == inp.triggered[Len(inp.triggered)]
             out == default_outputs(inp)
         IN  CASE triggered_id \in {"zoom-in", "zoom-out", "reset-zoom"} ->
                    handle_zoom(triggered_id, inp, out, durable)
               [] triggered_id = "load-state" /\ inp.n_clicks > 0 ->
                    handle_load(inp, out, durable, fault)
               [] triggered_id = "save-state" /\ inp.n_clicks > 0 ->
                    handle_save(inp, out, durable, fault)
               [] triggered_id = "save-note" /\ inp.n_clicks > 0 ->
                    handle_save_note(inp, out, durable, fault)
               [] triggered_id = "node-search" ->
                    handle_search(inp, out, durable)
               [] triggered_id = "cytoscape-graph" ->
                    handle_node_tap(inp, out, durable)
               [] OTHER -> PreventUpdate(inp, durable)

\* inp.triggered is ctx.triggered, each entry the component id of its prop_id;
\* inp.n_clicks is the n_clicks of the component that comes first in it
handle_interactions(inp, durable, fault) ==
    IF inp.triggered = <<>> THEN PreventUpdate(inp, durable)
    ELSE LET triggered_id == inp.triggered[1]
             out == default_outputs(inp)
         IN  CASE triggered_id \in {"zoom-in", "zoom-out", "reset-zoom"} ->
                    handle_zoom(triggered_id, inp, out, durable)
               [] triggered_id = "load-state" /\ inp.n_clicks > 0 ->
                    handle_load(inp, out, durable, fault)
               [] triggered_id = "save-state" /\ inp.n_clicks > 0 ->
                    handle_save(inp, out, durable, fault)
               [] triggered_id = "save-note" /\ inp.n_clicks > 0 ->
                    handle_save_note(inp, out, durable, fault)
               [] triggered_id = "node-search" ->
                    handle_search(inp, out, durable)
               [] triggered_id = "cytoscape-graph" ->
                    handle_node_tap(inp, out, durable)
               [] OTHER -> PreventUpdate(inp, durable)

-----------------------------------------------------------------------------
(* layout.py: get_layout *)

\* the initial values of the eight panel and alert outputs
layout_ui ==
    [node_info |-> Info("Click on a node to see details."),
     rendered_notes |-> <<>>,
     rendered_notes_style |-> "none",
     node_notes_value |-> <<>>,
     notes_section_style |-> "none",
     save_alert |-> FALSE,
     load_alert |-> FALSE,
     note_save_alert |-> FALSE]

\* a start that always builds the document anew
get_layout_always_builds(durable, fault) ==
    [elements |-> load_graph_elements(central_node, primary_nodes, subnodes),
     zoom |-> DefaultZoom,
     pan |-> DefaultPan]

\* the elements, zoom and pan the page starts with
get_layout(durable, fault) ==
    LET initial_state == load_graph_state(durable, fault)
    IN  IF initial_state.ok /\ DOMAIN initial_state.state # {}
        THEN [elements |-> get(initial_state.state, "elements", <<>>),
              zoom |-> get(initial_state.state, "zoom", DefaultZoom),
              pan |-> get(initial_state.state, "pan", DefaultPan)]
        ELSE [elements |-> load_graph_elements(central_node, primary_nodes, subnodes),
              zoom |-> DefaultZoom,
              pan |-> DefaultPan]

-----------------------------------------------------------------------------
(* One browser session against the store: every dispatch runs to its end,  *)
(* store call included, before the next one starts.                         *)

\* what the user may type in the search box and in the notes editor
Queries == { <<>>, <<"M", "A">>, <<"s">>, <<"z", "z">> }
NoteTexts == { <<>>, <<"h", "i">> }

\* a snapshot left in the store by an earlier run: a note on the first category,
\* the nodes matching "s" highlighted, zoomed to 1.5 and panned
EarlierSnapshot ==
    LET built  == load_graph_elements(central_node, primary_nodes, subnodes)
        noted  == update_note(built, S_Compute, <<"h", "i">>)
        labels == <<replace_char(S_Azure_Architectures, "_", " "),
                    replace_char(S_Virtual_Machines, "_", " ")>>
    IN  [elements |-> [i \in 1..Len(noted) |-> mark_highlight(noted[i], labels)],
         zoom |-> 150,
         pan |-> [x |-> 10, y |-> -5]]

PriorStores ==
    { [db |-> EmptyTable, committed |-> <<>>],
      [db |-> sql_insert(EmptyTable, json_dumps(EarlierSnapshot)),
       committed |-> EarlierSnapshot] }

\* a snapshot written before the subcategories were added and before the view
\* was stored: the central node, the first category and their edge, no zoom, no pan
OlderSnapshot ==
    [elements |-> load_graph_elements(central_node, primary_nodes, <<>>)]

\* a stored text that was cut short: json.loads raises JSONDecodeError on it
CorruptPayload ==
    LET text == json_dumps(EarlierSnapshot)
    IN  SubSeq(text, 1, Len(text) - 1)

\* the file holds a record that no save of this run or of the earlier run wrote
CorruptStore == [db |-> sql_insert(EmptyTable, CorruptPayload), committed |-> <<>>]

OlderStore == [db |-> sql_insert(EmptyTable, json_dumps(OlderSnapshot)), committed |-> <<>>]

\* sqlite3.connect fails or succeeds while the layout is built
StartFaults == {"none", "connect"}

NoConns == <<>>

NoCall == [fn |-> "none", done |-> TRUE]

Document == [elements |-> elements, zoom |-> zoom, pan |-> pan]

Inputs(triggered, n_clicks, search_value, tapped, note_value) ==
    [triggered |-> triggered,
     n_clicks |-> n_clicks,
     search_value |-> search_value,
     tapped_node_data |-> tapped,
     current_elements |-> elements,
     current_zoom |-> zoom,
     current_pan |-> pan,
     note_value |-> note_value,
     tapped_node_state |-> tapped,
     absent |-> {}]

Panel(out) ==
    [node_info |-> out.node_info,
     rendered_notes |-> out.rendered_notes,
     rendered_notes_style |-> out.rendered_notes_style,
     node_notes_value |-> out.node_notes_value,
     notes_section_style |-> out.notes_section_style,
     save_alert |-> out.save_alert,
     load_alert |-> out.load_alert,
     note_save_alert |-> out.note_save_alert]

\* the names under which a dispatch of the search box is recorded
SearchTriggers == {"node-search", "node-search-again"}

\* the successful save among the store calls of a dispatch, if any
committed_after(r, fault) ==
    IF r.calls # <<>> /\ r.calls[1].op = "save" /\ fault = "none"
    THEN r.calls[1].arg
    ELSE committed

\* the dispatches that change what is shown and never call the store
ViewTriggers ==
    {"zoom-in", "zoom-out", "reset-zoom", "node-search", "node-search-again", "cytoscape-graph"}

\* a snapshot was saved in this session, and every dispatch since then, this
\* one included, was one of ViewTriggers
view_since_save_after(trigger, r, fault) ==
    IF r.kind = "return" /\ r.calls # <<>> /\ r.calls[1].op = "save" /\ fault = "none"
    THEN TRUE
    ELSE trigger \in ViewTriggers /\ last.view_since_save

\* one invocation of the callback by Dash, and what Dash does with its result
Dispatch(trigger, inp, fault, counted) ==
    /\ counted => steps < MaxDispatch
    /\ \E r \in {handle_interactions(inp, db, fault)} :
        /\ steps' = IF counted THEN steps + 1 ELSE steps
        /\ IF r.kind = "return"
           THEN /\ elements' = r.out.elements
                /\ zoom' = r.out.zoom
                /\ pan' = r.out.pan
                /\ ui' = Panel(r.out)
           ELSE UNCHANGED <<elements, zoom, pan, ui>>
        /\ tapNodeData' = inp.tapped_node_state
        /\ db' = r.db
        /\ committed' = committed_after(r, fault)
        /\ last' = [trigger |-> trigger,
                    pre |-> Document,
                    pre_ui |-> ui,
                    pre_db |-> db,
                    search_value |-> inp.search_value,
                    prior_query |-> IF last.trigger \in SearchTriggers
                                    THEN <<last.search_value>> ELSE <<>>,
                    note_value |-> inp.note_value,
                    selection |-> inp.tapped_node_state,
                    n_clicks |-> inp.n_clicks,
                    absent |-> inp.absent,
                    triggered |-> inp.triggered,
                    view_since_save |-> view_since_save_after(trigger, r, fault),
                    pre_view_since_save |-> last.view_since_save,
                    fault |-> fault,
                    kind |-> r.kind,
                    calls |-> r.calls]
        /\ UNCHANGED <<conns, call>>

Click(button, counted) ==
    Dispatch(button, Inputs(<<button>>, 1, <<>>, tapNodeData, <<>>), "none", counted)

ZoomIn == Click("zoom-in", TRUE)

ZoomOut == Click("zoom-out", TRUE)

ResetZoom == Click("reset-zoom", TRUE)

Load ==
    \E fault \in LoadFaults :
        Dispatch("load-state", Inputs(<<"load-state">>, 1, <<>>, tapNodeData, <<>>),
                 fault, TRUE)

Save ==
    \E fault \in SaveFaults :
        Dispatch("save-state", Inputs(<<"save-state">>, 1, <<>>, tapNodeData, <<>>),
                 fault, TRUE)

\* the save a SaveNote makes succeeds or fails at its last statement; Save
\* goes through every fault of the store
NoteSaveFaults == {"none", "commit"}

SaveNote ==
    \E note_value \in NoteTexts, fault \in NoteSaveFaults :
        /\ tapNodeData = <<>> => fault = "none"     \* no store call is made then
        /\ Dispatch("save-note", Inputs(<<"save-note">>, 1, <<>>, tapNodeData, note_value),
                    fault, TRUE)

SearchChanged ==
    \E search_value \in Queries :
        Dispatch("node-search", Inputs(<<"node-search">>, 0, search_value, tapNodeData, <<>>),
                 "none", TRUE)

\* the user taps a node of the graph on the page: tapNodeData becomes its data
NodeTapped ==
    \E i \in 1..Len(elements) :
        /\ is_node(elements[i])
        /\ Dispatch("cytoscape-graph",
                    Inputs(<<"cytoscape-graph">>, 0, <<>>, elements[i].data, <<>>),
                    "none", TRUE)

\* the call Dash makes with nothing triggered, as when the page is first rendered
NoTrigger ==
    Dispatch("none", Inputs(<<>>, 0, <<>>, tapNodeData, <<>>), "none", TRUE)

SeedSession(fault) ==
    LET seeded == get_layout(db, fault)
    IN  /\ elements' = seeded.elements
        /\ zoom' = seeded.zoom
        /\ pan' = seeded.pan
        /\ ui' = layout_ui
        /\ tapNodeData' = <<>>
        /\ last' = [trigger |-> "startup",
                    pre |-> Document,
                    pre_ui |-> ui,
                    pre_db |-> db,
                    search_value |-> <<>>,
                    prior_query |-> <<>>,
                    note_value |-> <<>>,
                    selection |-> <<>>,
                    n_clicks |-> 0,
                    absent |-> {},
                    triggered |-> <<>>,
                    view_since_save |-> FALSE,
                    pre_view_since_save |-> FALSE,
                    fault |-> fault,
                    kind |-> "layout",
                    calls |-> <<[op |-> "load", arg |-> <<>>]>>]

\* the application is started again and the page opened: app.layout = get_layout()
Startup ==
    \E fault \in LoadFaults :
        /\ steps < MaxDispatch
        /\ steps' = steps + 1
        /\ SeedSession(fault)
        /\ UNCHANGED <<db, conns, committed, call>>

InitLast(doc) ==
    [trigger |-> "init",
     pre |-> doc,
     pre_ui |-> layout_ui,
     pre_db |-> EmptyTable,
     search_value |-> <<>>,
     prior_query |-> <<>>,
     note_value |-> <<>>,
     selection |-> <<>>,
     n_clicks |-> 0,
     absent |-> {},
     triggered |-> <<>>,
     view_since_save |-> FALSE,
     pre_view_since_save |-> FALSE,
     fault |-> "none",
     kind |-> "layout",
     calls |-> <<>>]

Init ==
    \E prior \in PriorStores \cup {CorruptStore, OlderStore}, fault \in StartFaults :
        LET seeded == get_layout(prior.db, fault)
        IN  /\ db = prior.db
            /\ committed = prior.committed
            /\ elements = seeded.elements
            /\ zoom = seeded.zoom
            /\ pan = seeded.pan
            /\ ui = layout_ui
            /\ tapNodeData = <<>>
            /\ conns = NoConns
            /\ call = NoCall
            /\ last = [InitLast(seeded) EXCEPT !.fault = fault]
            /\ steps = 0

Next ==
    \/ ZoomIn
    \/ ZoomOut
    \/ ResetZoom
    \/ Load
    \/ Save
    \/ SaveNote
    \/ SearchChanged
    \/ NodeTapped
    \/ NoTrigger
    \/ Startup

Spec == Init /\ [][Next]_vars

-----------------------------------------------------------------------------
(* The zoom buttons alone, from every zoom in range, any number of times *)

PanStarts == { DefaultPan, [x |-> 10, y |-> -5] }

InitZoom ==
    \E z \in MinZoom..MaxZoom, p \in PanStarts :
        /\ db = EmptyTable
        /\ committed = <<>>
        /\ elements = load_graph_elements(central_node, primary_nodes, subnodes)
        /\ zoom = z
        /\ pan = p
        /\ ui = layout_ui
        /\ tapNodeData = <<>>
        /\ conns = NoConns
        /\ call = NoCall
        /\ last = InitLast([elements |-> elements, zoom |-> z, pan |-> p])
        /\ steps = 0

RepeatZoomIn == Click("zoom-in", FALSE)

RepeatZoomOut == Click("zoom-out", FALSE)

RepeatResetZoom == Click("reset-zoom", FALSE)

NextZoom ==
    \/ RepeatZoomIn
    \/ RepeatZoomOut
    \/ RepeatResetZoom

SpecZoom == InitZoom /\ [][NextZoom]_vars

-----------------------------------------------------------------------------
(* The store under concurrent requests: each session runs save_graph_state *)
(* or load_graph_state one statement at a time, on its own connection.     *)

NumSessions == 2

Sessions == 1..NumSessions

\* the states the sessions ask the store to save
StorePayloads ==
    { EarlierSnapshot,
      [elements |-> load_graph_elements(central_node, primary_nodes, subnodes),
       zoom |-> DefaultZoom,
       pan |-> DefaultPan] }

IdleConn ==
    [op |-> "idle", pc |-> "idle", arg |-> <<>>, work |-> EmptyTable, row |-> <<>>,
     expect |-> <<>>, overlap |-> FALSE, failed |-> FALSE,
     result |-> [ok |-> FALSE, state |-> <<>>],
     wrote |-> <<>>]     \* history: the state this session's latest committed save wrote

\* another connection holds the RESERVED lock: it has written and not committed
ReservedByOther(s) ==
    \E t \in Sessions \ {s} : conns[t].op = "save" /\ conns[t].pc \in {"deleted", "inserted"}

\* another connection holds a SHARED lock: it has read and not closed
SharedByOther(s) ==
    \E t \in Sessions \ {s} : conns[t].op = "load" /\ conns[t].pc = "selected"

Reducer == <<elements, zoom, pan, ui, tapNodeData, last, call>>

\* save_graph_state(state) is called by a session that has no call in progress:
\* json.dumps, then the with block is entered
CallSave(s) ==
    /\ conns[s].pc \in {"idle", "done"}
    /\ steps < MaxRequests
    /\ \E state \in StorePayloads :
          conns' = [conns EXCEPT ![s] = [IdleConn EXCEPT !.op = "save", !.pc = "called",
                                                         !.arg = state,
                                                         !.wrote = conns[s].wrote]]
    /\ steps' = steps + 1
    /\ UNCHANGED <<db, committed, Reducer>>

\* load_graph_state() is called by a session that has no call in progress
CallLoad(s) ==
    /\ conns[s].pc \in {"idle", "done"}
    /\ steps < MaxRequests
    /\ conns' = [conns EXCEPT ![s] = [IdleConn EXCEPT !.op = "load", !.pc = "called",
                                                     !.wrote = conns[s].wrote]]
    /\ steps' = steps + 1
    /\ UNCHANGED <<db, committed, Reducer>>

\* sqlite3.connect(DATABASE_FILE)
Connect(s) ==
    /\ conns[s].pc = "called"
    /\ conns' = [conns EXCEPT ![s].pc = "connected", ![s].work = db]
    /\ UNCHANGED <<db, committed, steps, Reducer>>

\* c.execute('DELETE FROM graph_state'): opens the transaction, takes RESERVED
ExecuteDelete(s) ==
    /\ conns[s].op = "save" /\ conns[s].pc = "connected"
    /\ ~ReservedByOther(s)
    /\ conns' = [conns EXCEPT ![s].pc = "deleted", ![s].work = sql_delete(db)]
    /\ db' = sql_uncommitted(db, sql_delete(db))
    /\ UNCHANGED <<committed, steps, Reducer>>

\* c.execute('INSERT INTO graph_state (state) VALUES (?)', (state_json,))
ExecuteInsert(s) ==
    /\ conns[s].op = "save" /\ conns[s].pc = "deleted"
    /\ \E inserted \in {sql_insert(conns[s].work, json_dumps(conns[s].arg))} :
          /\ conns' = [conns EXCEPT ![s].pc = "inserted", ![s].work = inserted]
          /\ db' = sql_uncommitted(db, inserted)
    /\ UNCHANGED <<committed, steps, Reducer>>

\* conn.commit(): waits for the readers, then makes the transaction durable
Commit(s) ==
    /\ conns[s].op = "save" /\ conns[s].pc = "inserted"
    /\ ~SharedByOther(s)
    /\ db' = sql_commit(db, conns[s].work)
    /\ committed' = conns[s].arg
    /\ conns' = [conns EXCEPT ![s].pc = "committed", ![s].wrote = conns[s].arg]
    /\ UNCHANGED <<steps, Reducer>>

\* the with block is left, conn.close() drops the connection's copy and
\* save_graph_state returns True
ReturnSave(s) ==
    /\ conns[s].op = "save" /\ conns[s].pc = "committed"
    /\ db' = sql_close(db, db)
    /\ conns' = [conns EXCEPT ![s].pc = "done", ![s].work = EmptyTable,
                              ![s].result = [ok |-> TRUE, state |-> <<>>]]
    /\ UNCHANGED <<committed, steps, Reducer>>

\* c.execute('SELECT ...') and c.fetchone(): reads under a SHARED lock
Select(s) ==
    /\ conns[s].op = "load" /\ conns[s].pc = "connected"
    /\ conns' = [conns EXCEPT ![s].pc = "selected",
                              ![s].row = sql_select_latest(db),
                              ![s].expect = committed,
                              ![s].overlap = ReservedByOther(s)]
    /\ UNCHANGED <<db, committed, steps, Reducer>>

\* json.loads of the row, the with block is left, load_graph_state returns
ReturnLoad(s) ==
    /\ conns[s].op = "load" /\ conns[s].pc = "selected"
    /\ conns' = [conns EXCEPT ![s].pc = "done", ![s].work = EmptyTable,
                              ![s].result = decode_row(conns[s].row)]
    /\ UNCHANGED <<db, committed, steps, Reducer>>

\* sqlite3.Error at the next statement (connect, execute or commit; a lock that is
\* not released in time): the connection is closed, False or None is returned
StoreError(s) ==
    /\ \/ conns[s].op = "save" /\ conns[s].pc \in {"called", "connected", "deleted", "inserted"}
       \/ conns[s].op = "load" /\ conns[s].pc \in {"called", "connected"}
    /\ db' = IF conns[s].pc \in {"deleted", "inserted"}
             THEN sql_close(db, conns[s].work)
             ELSE db
    /\ conns' = [conns EXCEPT ![s].pc = "done", ![s].failed = TRUE,
                              ![s].work = EmptyTable,
                              ![s].result = [ok |-> FALSE, state |-> <<>>]]
    /\ UNCHANGED <<committed, steps, Reducer>>

InitStore ==
    \E prior \in PriorStores \cup {CorruptStore} :
        /\ db = prior.db
        /\ committed = prior.committed
        /\ elements = load_graph_elements(central_node, primary_nodes, subnodes)
        /\ zoom = DefaultZoom
        /\ pan = DefaultPan
        /\ ui = layout_ui
        /\ tapNodeData = <<>>
        /\ conns = [s \in Sessions |-> IdleConn]
        /\ call = NoCall
        /\ last = InitLast([elements |-> elements, zoom |-> zoom, pan |-> pan])
        /\ steps = 0

NextStore ==
    \E s \in Sessions :
        \/ CallSave(s)
        \/ CallLoad(s)
        \/ Connect(s)
        \/ ExecuteDelete(s)
        \/ ExecuteInsert(s)
        \/ Commit(s)
        \/ ReturnSave(s)
        \/ Select(s)
        \/ ReturnLoad(s)
        \/ StoreError(s)

SpecStore == InitStore /\ [][NextStore]_vars

-----------------------------------------------------------------------------
(* The search box alone: every query, typed and typed again, against        *)
(* documents in which any of the nodes is highlighted already.              *)

S_App_Services == <<"A", "p", "p", "_", "S", "e", "r", "v", "i", "c", "e", "s">>

\* the first category with its first two subcategories
SearchSubnodes ==
    << [k |-> S_Compute,
        v |-> << [k |-> S_Virtual_Machines,
                  v |-> "Virtual Machines (VMs) provide scalable computing resources in Azure."],
                 [k |-> S_App_Services,
                  v |-> "App Services are used to build, host, and scale web applications."] >>] >>

SearchQueries ==
    Queries \cup { <<"v", "m">>, <<"V", "i", "r", "t">>, <<"a">> }

\* the built document, and its two subcategory nodes alone
SearchDocuments ==
    LET built == load_graph_elements(central_node, primary_nodes, SearchSubnodes)
    IN  { built, SelectSeq(built, LAMBDA e : is_node(e) /\ e.classes = <<"s", "u", "b", "n", "o", "d", "e">>) }

NodeLabels(elems) == { elems[i].data.label : i \in { j \in 1..Len(elems) : is_node(elems[j]) } }

InitSearch ==
    \E doc \in SearchDocuments :
        \E marked \in SUBSET NodeLabels(doc) :
            LET labels == SelectSeq([i \in 1..Len(doc) |-> get(doc[i].data, "label", <<>>)],
                                    LAMBDA l : l \in marked)
            IN  /\ db = EmptyTable
                /\ committed = <<>>
                /\ elements = IF marked = {} THEN doc
                              ELSE [i \in 1..Len(doc) |-> mark_highlight(doc[i], labels)]
                /\ zoom = DefaultZoom
                /\ pan = DefaultPan
                /\ ui = layout_ui
                /\ tapNodeData = <<>>
                /\ conns = NoConns
                /\ call = NoCall
                /\ last = InitLast([elements |-> elements, zoom |-> zoom, pan |-> pan])
                /\ steps = 0

\* the user changes the text of the search box
TypeQuery ==
    \E search_value \in SearchQueries :
        Dispatch("node-search", Inputs(<<"node-search">>, 0, search_value, tapNodeData, <<>>),
                 "none", FALSE)

\* the same text is dispatched once more, on the document the search returned
RepeatQuery ==
    /\ last.trigger \in SearchTriggers
    /\ Dispatch("node-search-again",
                Inputs(<<"node-search">>, 0, last.search_value, tapNodeData, <<>>),
                "none", FALSE)

NextSearch ==
    \/ TypeQuery
    \/ RepeatQuery

SpecSearch == InitSearch /\ [][NextSearch]_vars

-----------------------------------------------------------------------------
(* The callback on inputs of every shape: one dispatch on a page whose       *)
(* elements, selection and stored record may be malformed                    *)

\* d without its key k
without(d, k) == [x \in DOMAIN d \ {k} |-> d[x]]

\* the earlier run's document with the first category's label missing
NoLabelDocument ==
    [EarlierSnapshot EXCEPT !.elements[2].data = without(EarlierSnapshot.elements[2].data, "label")]

\* the same with the subcategory's element stripped of its data
NoDataDocument ==
    [EarlierSnapshot EXCEPT !.elements[3] = without(EarlierSnapshot.elements[3], "data")]

\* the same with no elements at all
NoElementsDocument == [EarlierSnapshot EXCEPT !.elements = <<>>]

ShapeDocuments == << EarlierSnapshot, NoLabelDocument, NoDataDocument, NoElementsDocument >>

\* the store holds a JSON array
ListStore ==
    [db |-> sql_insert(EmptyTable, <<Punct("[")>> \o dumps_num(1) \o <<Punct("]")>>),
     committed |-> <<>>]

\* the store holds what a Save of the document without data wrote
NoDataStore ==
    [db |-> sql_insert(EmptyTable, json_dumps(NoDataDocument)), committed |-> NoDataDocument]

ShapeStores ==
    << [db |-> EmptyTable, committed |-> <<>>],
       [db |-> sql_insert(EmptyTable, json_dumps(EarlierSnapshot)), committed |-> EarlierSnapshot],
       CorruptStore, OlderStore, ListStore, NoDataStore >>

\* tapNodeData: nothing, the data of the first category, an id no element
\* has, a payload without an id, a payload with an id only
TapPayloads ==
    << <<>>,
       EarlierSnapshot.elements[2].data,
       [id |-> <<"X">>, label |-> <<"X">>, description |-> "", notes |-> <<>>],
       [label |-> <<"X">>],
       [id |-> S_Virtual_Machines] >>

InitShapes ==
    \E s \in 1..Len(ShapeStores), d \in 1..Len(ShapeDocuments) :
        \E store \in {ShapeStores[s]}, doc \in {ShapeDocuments[d]}, k \in 1..Len(TapPayloads) :
            /\ db = store.db
            /\ committed = store.committed
            /\ elements = doc.elements
            /\ zoom = doc.zoom
            /\ pan = doc.pan
            /\ ui = layout_ui
            /\ tapNodeData = TapPayloads[k]
            /\ conns = NoConns
            /\ call = NoCall
            /\ last = InitLast(doc)
            /\ steps = 0

\* one dispatch whose inputs named in absent are None
DispatchOnce(trigger, inp, absent, fault) ==
    /\ last.trigger = "init"
    /\ Dispatch(trigger, [inp EXCEPT !.absent = absent], fault, TRUE)

ZoomAnyShape ==
    \E button \in {"zoom-in", "zoom-out", "reset-zoom"}, n_clicks \in {0, 1},
       absent \in {{}, {"current_zoom"}} :
        DispatchOnce(button, Inputs(<<button>>, n_clicks, <<>>, tapNodeData, <<>>), absent, "none")

LoadAnyShape ==
    \E fault \in LoadFaults, n_clicks \in {0, 1} :
        DispatchOnce("load-state", Inputs(<<"load-state">>, n_clicks, <<>>, tapNodeData, <<>>),
                     {}, fault)

SaveAnyShape ==
    \E fault \in SaveFaults, n_clicks \in {0, 1} :
        DispatchOnce("save-state", Inputs(<<"save-state">>, n_clicks, <<>>, tapNodeData, <<>>),
                     {}, fault)

SaveNoteAnyShape ==
    \E note_value \in NoteTexts, absent \in {{}, {"note_value"}}, fault \in SaveFaults,
       n_clicks \in {0, 1} :
        /\ absent # {} => note_value = <<>>
        /\ DispatchOnce("save-note",
                        Inputs(<<"save-note">>, n_clicks, <<>>, tapNodeData, note_value),
                        absent, fault)

SearchAnyShape ==
    \E search_value \in Queries :
        DispatchOnce("node-search", Inputs(<<"node-search">>, 0, search_value, tapNodeData, <<>>),
                     {}, "none")

NodeTappedAnyShape ==
    \E k \in 1..Len(TapPayloads), absent \in {{}, {"tapped_notes"}} :
        DispatchOnce("cytoscape-graph",
                     Inputs(<<"cytoscape-graph">>, 0, <<>>, TapPayloads[k], <<>>), absent, "none")

\* the inputs that can fire the callback
AllTriggers ==
    {"zoom-in", "zoom-out", "reset-zoom", "load-state", "save-state", "save-note",
     "node-search", "cytoscape-graph"}

\* Dash reports two inputs as fired in one invocation: ctx.triggered has two
\* entries, every input carries its value
SeveralFired ==
    \E first \in AllTriggers : \E second \in AllTriggers \ {first} :
        DispatchOnce(first,
                     Inputs(<<first, second>>, 1, <<"s">>, tapNodeData, <<"h", "i">>),
                     {}, "none")

NextShapes ==
    \/ SeveralFired
    \/ ZoomAnyShape
    \/ LoadAnyShape
    \/ SaveAnyShape
    \/ SaveNoteAnyShape
    \/ SearchAnyShape
    \/ NodeTappedAnyShape

SpecShapes == InitShapes /\ [][NextShapes]_vars

-----------------------------------------------------------------------------
(* The helpers called on their own, each on arguments drawn from a small set *)

MaxLabels == 2        \* labels per list handed to the matcher

\* queries and labels that differ in letter case, order and length
MatchQueries ==
    { <<>>, <<"a">>, <<"A">>, <<"a", "b">>, <<"A", "B">>, <<"b", "A">>, <<"b", " ">>, <<"c">> }

MatchLabels ==
    { <<"a">>, <<"A", "b">>, <<"b", "a">>, <<"B", " ", "a", "B">> }

\* the lists of at most n labels
LabelLists(n) == UNION { [1..k -> MatchLabels] : k \in 0..n }

\* factor as a fraction num / den: 0, 0.5, the builder's 0.6, and 1
Factors ==
    { [num |-> 0, den |-> 1], [num |-> 1, den |-> 2], [num |-> 6, den |-> 10], [num |-> 1, den |-> 1] }

\* channel values written in lower case, upper case and mixed
ColorPairs == { <<"0", "0">>, <<"1", "f">>, <<"7", "7">>, <<"b", "4">>, <<"F", "F">> }

\* six-digit colours with and without the leading '#'
Colors6 == { prefix \o r \o g \o b : prefix \in {<<>>, <<"#">>}, r \in ColorPairs, g \in ColorPairs, b \in ColorPairs }

\* three-digit colours
Colors3 == { <<"#", "a", "b", "c">>, <<"f", "f", "f">>, <<"#", "0", "F", "8">> }

\* strings that are not three or six hex digits
OtherColors ==
    { <<>>, <<"#">>, <<"#", "1", "2">>, <<"1", "2">>, <<"#", "1", "2", "3", "4">>, <<"#", "1", "2", "3", "4", "5">>, <<"#", "1", "2", "3", "4", "5", "6", "7">>,
      <<"#", "g", "g", "g">>, <<"z", "z", "z">>, <<"#", "g", "g", "g", "g", "g", "g">>, <<"1", "g", "3", "4", "5", "6">>, <<"#", "+", "1", "-", "2", " ", "3">>, <<"#", "1", "2", "3", "4", "5", "g">> }

MaxCategories == 11   \* primary categories of a generated taxonomy
MaxSubs == 2          \* subcategories under one category

S_Functions == <<"F", "u", "n", "c", "t", "i", "o", "n", "s">>

CategoryId(i) == <<"C", "_", LowerCase[i]>>
SubId(i, j) == <<"S", "_", LowerCase[i], LowerCase[j]>>

\* a taxonomy of n categories; every category has m subcategories, or (ragged)
\* category i has i mod (m + 1); the subnode mapping lists the categories in
\* the given order or in reverse
Taxonomy(n, m, ragged, reversed) ==
    [central_node |-> central_node,
     primary_nodes |-> [i \in 1..n |-> [k |-> CategoryId(i), v |-> "category"]],
     subnodes |-> [x \in 1..n |->
                      LET i == IF reversed THEN n + 1 - x ELSE x
                          count == IF ragged THEN i % (m + 1) ELSE m
                      IN  [k |-> CategoryId(i),
                           v |-> [j \in 1..count |-> [k |-> SubId(i, j), v |-> "subcategory"]]]]]

Taxonomies ==
    { Taxonomy(n, m, ragged, reversed) :
          n \in 0..MaxCategories, m \in 0..MaxSubs, ragged \in BOOLEAN, reversed \in BOOLEAN }
    \cup { [central_node |-> central_node, primary_nodes |-> primary_nodes, subnodes |-> subnodes],
           [central_node |-> central_node,
            primary_nodes |-> << [k |-> S_Compute, v |-> "category"] >>,
            subnodes |-> << [k |-> S_Compute, v |-> << [k |-> S_Functions, v |-> "subcategory"] >>] >>] }

\* no session, no store: only the call is looked at
IdleSession ==
    /\ db = EmptyTable
    /\ committed = <<>>
    /\ elements = <<>>
    /\ zoom = DefaultZoom
    /\ pan = DefaultPan
    /\ ui = layout_ui
    /\ tapNodeData = <<>>
    /\ conns = NoConns
    /\ last = InitLast([elements |-> <<>>, zoom |-> DefaultZoom, pan |-> DefaultPan])
    /\ steps = 0

InitHelpers ==
    /\ IdleSession
    /\ \/ \E search_value \in MatchQueries, all_labels \in LabelLists(MaxLabels) :
             call = [fn |-> "perform_fuzzy_search", done |-> FALSE,
                     search_value |-> search_value, all_labels |-> all_labels]
       \/ \E hex_color \in Colors6 \cup Colors3 \cup OtherColors, factor \in Factors :
             call = [fn |-> "lighten_color", done |-> FALSE,
                     hex_color |-> hex_color, factor |-> factor]
       \/ \E taxonomy \in Taxonomies :
             call = [fn |-> "load_graph_elements", done |-> FALSE, taxonomy |-> taxonomy]

Unchanged_session ==
    UNCHANGED <<elements, zoom, pan, ui, tapNodeData, db, conns, committed, last, steps>>

ApplyMatch ==
    /\ call.fn = "perform_fuzzy_search" /\ ~call.done
    /\ call' = [fn |-> "perform_fuzzy_search", done |-> TRUE,
                search_value |-> call.search_value, all_labels |-> call.all_labels,
                result |-> perform_fuzzy_search(call.search_value, call.all_labels)]
    /\ Unchanged_session

ApplyLighten ==
    /\ call.fn = "lighten_color" /\ ~call.done
    /\ call' = [fn |-> "lighten_color", done |-> TRUE,
                hex_color |-> call.hex_color, factor |-> call.factor,
                result |-> lighten_color(call.hex_color, call.factor.num, call.factor.den)]
    /\ Unchanged_session

ApplyBuild ==
    /\ call.fn = "load_graph_elements" /\ ~call.done
    /\ call' = [fn |-> "load_graph_elements", done |-> TRUE, taxonomy |-> call.taxonomy,
                result |-> load_graph_elements(call.taxonomy.central_node,
                                               call.taxonomy.primary_nodes,
                                               call.taxonomy.subnodes)]
    /\ Unchanged_session

NextHelpers ==
    \/ ApplyMatch
    \/ ApplyLighten
    \/ ApplyBuild

SpecHelpers == InitHelpers /\ [][NextHelpers]_vars

-----------------------------------------------------------------------------
(* Properties *)

ZoomTriggers == {"zoom-in", "zoom-out", "reset-zoom"}

HasHighlight(elems) ==
    \E i \in 1..Len(elems) :
        "classes" \in DOMAIN elems[i] /\ in_list(S_highlighted, split(elems[i].classes))

HasNote(elems) ==
    \E i \in 1..Len(elems) : "notes" \in DOMAIN elems[i].data /\ elems[i].data.notes # <<>>

\* C1: from any zoom in [0.5, 2.0], after any sequence of ZoomIn, ZoomOut and
\* ResetZoom dispatches the zoom the reducer returned is in [0.5, 2.0].
C1_ZoomStaysInRange ==
    /\ last.pre.zoom \in MinZoom..MaxZoom
    /\ last.trigger \in ZoomTriggers => zoom \in MinZoom..MaxZoom

\* a ZoomOut that the lower limit cut short
C1_Witness ==
    /\ last.trigger = "zoom-out"
    /\ last.pre.zoom - zoom_factor < MinZoom
    /\ zoom = MinZoom

\* C2: the zoom of the session's document is in [0.5, 2.0] in every reachable
\* state: after seeding, and after all eight triggers, Load included.
C2_DocumentZoomInRange == MinZoom <= zoom /\ zoom <= MaxZoom

\* a Load that replaced the zoom by the snapshot's
C2_Witness ==
    /\ last.trigger = "load-state"
    /\ ui.load_alert
    /\ zoom # last.pre.zoom

\* C3: ZoomIn gives min(old + 0.2, 2.0), ZoomOut gives max(old - 0.2, 0.5);
\* elements and pan are the pre-trigger ones.
C3_ZoomInOutStep ==
    /\ last.trigger = "zoom-in" =>
          /\ zoom = Min(last.pre.zoom + zoom_factor, MaxZoom)
          /\ elements = last.pre.elements
          /\ pan = last.pre.pan
    /\ last.trigger = "zoom-out" =>
          /\ zoom = Max(last.pre.zoom - zoom_factor, MinZoom)
          /\ elements = last.pre.elements
          /\ pan = last.pre.pan

\* a ZoomIn at the upper limit, which leaves the zoom where it was
C3_Witness ==
    /\ last.trigger = "zoom-in"
    /\ last.pre.zoom = MaxZoom
    /\ zoom = MaxZoom
    /\ pan # DefaultPan

\* C4: ResetZoom gives exactly 1.0 whatever the zoom was; elements and pan
\* are the pre-trigger ones.
C4_ResetZoomIsDefault ==
    last.trigger = "reset-zoom" =>
        /\ zoom = DefaultZoom
        /\ elements = last.pre.elements
        /\ pan = last.pre.pan

\* a ResetZoom from the upper limit
C4_Witness ==
    /\ last.trigger = "reset-zoom"
    /\ last.pre.zoom = MaxZoom
    /\ zoom = DefaultZoom

\* C5: a dispatch in which nothing triggered changes no output (document,
\* panels, alerts) and makes no store call.
C5_NoTriggerIsNoOp ==
    last.trigger = "none" =>
        /\ last.kind = "PreventUpdate"
        /\ Document = last.pre
        /\ ui = last.pre_ui
        /\ last.calls = <<>>
        /\ db = last.pre_db

\* nothing triggered while the panels showed a tapped node
C5_Witness ==
    /\ last.trigger = "none"
    /\ ui.notes_section_style = "block"

\* C6: Save hands the store the pre-trigger elements, zoom and pan, returns the
\* document unchanged and opens the saved alert exactly when the store succeeded.
C6_SavePassesCurrentDocument ==
    last.trigger = "save-state" =>
        /\ last.calls = <<[op |-> "save", arg |-> last.pre]>>
        /\ Document = last.pre
        /\ ui.save_alert <=> last.fault = "none"
        /\ ui.save_alert =>
              /\ Len(db.rows) >= 1
              /\ db.rows[Len(db.rows)].state = json_dumps(last.pre)
        /\ ~ui.save_alert => db = last.pre_db

\* a successful Save of a document that holds a note and a highlighted node
C6_Witness ==
    /\ last.trigger = "save-state"
    /\ ui.save_alert
    /\ HasHighlight(last.pre.elements)
    /\ HasNote(last.pre.elements)
    /\ db # last.pre_db

\* C7: when save fails at any point, the durable store still holds the prior
\* snapshot, the saved alert is false and the document is unchanged.
C7_FailedSaveKeepsSnapshot ==
    (last.trigger = "save-state" /\ last.fault # "none") =>
        /\ db = last.pre_db
        /\ ~ui.save_alert
        /\ Document = last.pre

\* a Save that failed between the delete and the insert, over a stored snapshot
C7_Witness ==
    /\ last.trigger = "save-state"
    /\ last.fault = "insert"
    /\ last.pre_db.rows # <<>>
    /\ db.rows # <<>>

\* C9: a load that follows a successful save, with no other save between,
\* returns the elements, zoom and pan that were saved.
C9_SaveLoadRoundTrip ==
    /\ committed # <<>> => load_graph_state(db, "none") = [ok |-> TRUE, state |-> committed]
    /\ (last.trigger = "load-state" /\ last.fault = "none" /\ committed # <<>>) =>
          /\ Document = committed
          /\ ui.load_alert

\* a Load that brought back the document a Save of this run had stored
C9_Witness ==
    /\ last.trigger = "load-state"
    /\ ui.load_alert
    /\ committed # EarlierSnapshot
    /\ Document # last.pre
    /\ Document = committed

\* C8: a load that runs while another session saves returns the whole snapshot
\* committed last before it read, or the whole new one; the uncommitted delete
\* never makes it return "absent", and it never returns part of a snapshot.
C8_LoadSeesCommittedSnapshot ==
    \A s \in Sessions :
        (conns[s].op = "load" /\ conns[s].pc = "done" /\ ~conns[s].failed) =>
            /\ conns[s].expect # <<>> =>
                  conns[s].result = [ok |-> TRUE, state |-> conns[s].expect]
            /\ conns[s].expect = <<>> => ~conns[s].result.ok
            /\ conns[s].result.ok => conns[s].result.state \in StorePayloads

\* a load that read while another session had deleted and not yet committed
C8_Witness ==
    \E s \in Sessions :
        /\ conns[s].op = "load" /\ conns[s].pc = "done"
        /\ conns[s].overlap
        /\ conns[s].result.ok

\* C10: the durable table holds at most one record after any saves, failed or
\* not, of any sessions; a committed save leaves its own record and no other.
C10_AtMostOneSnapshot ==
    /\ Len(db.rows) <= 1
    /\ committed # <<>> =>
          /\ Len(db.rows) = 1
          /\ db.rows[1].state = json_dumps(committed)

\* a later save has replaced the record of an earlier one, after a failed save
C10_Witness ==
    /\ Len(db.rows) = 1
    /\ db.rows[1].id >= 2
    /\ \E s \in Sessions : conns[s].op = "save" /\ conns[s].failed

\* C11: load returns the snapshot of the save committed last, whichever session
\* committed it, and returns "absent" (None, no exception) when the table is
\* empty, when the stored text does not parse and when the backend fails.
C11_LoadReturnsLatestCommitted ==
    /\ committed # <<>> => load_graph_state(db, "none") = [ok |-> TRUE, state |-> committed]
    /\ db.rows = <<>> => ~load_graph_state(db, "none").ok
    /\ db = CorruptStore.db => ~load_graph_state(db, "none").ok
    /\ \A s \in Sessions :
          (conns[s].op = "load" /\ conns[s].pc = "done") =>
              /\ conns[s].failed => ~conns[s].result.ok
              /\ (~conns[s].failed /\ conns[s].row = <<>>) => ~conns[s].result.ok
              /\ (~conns[s].failed /\ conns[s].row = <<CorruptPayload>>) => ~conns[s].result.ok
              /\ (~conns[s].failed /\ conns[s].expect # <<>>) =>
                    conns[s].result = [ok |-> TRUE, state |-> conns[s].expect]

\* a session loads the state that another session committed over the record
\* of the earlier run
C11_Witness ==
    \E s \in Sessions, t \in Sessions :
        /\ s # t
        /\ conns[s].op = "load" /\ conns[s].pc = "done" /\ conns[s].result.ok
        /\ conns[t].wrote # <<>>
        /\ conns[t].wrote # EarlierSnapshot
        /\ conns[s].result.state = conns[t].wrote
        /\ db.rows[1].id >= 2

\* what the store returned to the Load of the last dispatch
LoadedSnapshot == load_graph_state(last.pre_db, last.fault)

\* C12: a Load for which the store returns a snapshot replaces elements, zoom
\* and pan by the snapshot's, with zoom 1.0 and pan {0,0} where the snapshot has
\* none, and opens the loaded alert.
C12_LoadReplacesDocument ==
    (last.trigger = "load-state" /\ LoadedSnapshot.ok) =>
        /\ "elements" \in DOMAIN LoadedSnapshot.state =>
              elements = LoadedSnapshot.state.elements
        /\ zoom = IF "zoom" \in DOMAIN LoadedSnapshot.state
                  THEN LoadedSnapshot.state.zoom ELSE DefaultZoom
        /\ pan = IF "pan" \in DOMAIN LoadedSnapshot.state
                 THEN LoadedSnapshot.state.pan ELSE DefaultPan
        /\ ui.load_alert
        /\ last.pre_db = OlderStore.db =>
              Document = [elements |-> OlderSnapshot.elements,
                          zoom |-> DefaultZoom, pan |-> DefaultPan]
        /\ committed # <<>> => Document = committed

\* a Load of the snapshot without zoom and pan, over a larger document that
\* had been zoomed
C12_Witness ==
    /\ last.trigger = "load-state"
    /\ last.pre_db = OlderStore.db
    /\ last.fault = "none"
    /\ last.pre.zoom # DefaultZoom
    /\ Len(last.pre.elements) > Len(elements)
    /\ zoom = DefaultZoom

\* C13: a Load for which the store returns "absent" leaves elements, zoom and
\* pan as they were and leaves every alert closed.
C13_AbsentLoadChangesNothing ==
    (last.trigger = "load-state" /\ ~LoadedSnapshot.ok) =>
        /\ Document = last.pre
        /\ ~ui.load_alert
        /\ ~ui.save_alert
        /\ ~ui.note_save_alert
        /\ db = last.pre_db

\* a Load of the text that does not parse, over a document that was zoomed
C13_Witness ==
    /\ last.trigger = "load-state"
    /\ last.fault = "none"
    /\ last.pre_db = CorruptStore.db
    /\ zoom # DefaultZoom
    /\ ~ui.load_alert

\* the last dispatch was SaveNote with a node selected
NoteOnSelection == last.trigger = "save-note" /\ last.selection # <<>>

\* the selected id is the id of an element of the pre-trigger document
SelectionPresent ==
    \E i \in 1..Len(last.pre.elements) : last.pre.elements[i].data.id = last.selection.id

\* C14: SaveNote with no node selected returns elements, zoom and pan as they
\* were, calls the store not at all, leaves the note-saved alert closed and
\* returns normally.
C14_SaveNoteWithoutSelection ==
    (last.trigger = "save-note" /\ last.selection = <<>>) =>
        /\ last.kind = "return"
        /\ Document = last.pre
        /\ last.calls = <<>>
        /\ db = last.pre_db
        /\ ~ui.note_save_alert

\* SaveNote("hi") with nothing tapped, over a stored snapshot
C14_Witness ==
    /\ last.trigger = "save-note"
    /\ last.selection = <<>>
    /\ last.note_value = <<"h", "i">>
    /\ db.rows # <<>>

\* C15: SaveNote(text) with a selected id that is in the document sets the notes
\* of the node with that id to text and of no other element, leaves zoom and pan,
\* and hands the store the document with the note already in it.
C15_SaveNoteUpdatesSelectedNode ==
    (NoteOnSelection /\ SelectionPresent) =>
        /\ Len(elements) = Len(last.pre.elements)
        /\ \A i \in 1..Len(elements) :
              elements[i] =
                  IF last.pre.elements[i].data.id = last.selection.id
                  THEN [last.pre.elements[i] EXCEPT !.data.notes = last.note_value]
                  ELSE last.pre.elements[i]
        /\ zoom = last.pre.zoom
        /\ pan = last.pre.pan
        /\ last.calls = <<[op |-> "save", arg |-> Document]>>
        /\ last.fault = "none" =>
              /\ Len(db.rows) = 1
              /\ db.rows[1].state = json_dumps(Document)
        /\ last.fault # "none" => db = last.pre_db

\* the note "hi" written on the subcategory and stored
C15_Witness ==
    /\ NoteOnSelection
    /\ last.selection.id = S_Virtual_Machines
    /\ last.note_value = <<"h", "i">>
    /\ last.fault = "none"
    /\ elements # last.pre.elements
    /\ db # last.pre_db

\* C16: SaveNote(text) with a selected id that no element has changes the notes
\* of no element, and still returns text as notes panel and notes editor.
C16_SaveNoteUnknownNode ==
    (NoteOnSelection /\ ~SelectionPresent) =>
        /\ elements = last.pre.elements
        /\ ui.rendered_notes = last.note_value
        /\ ui.node_notes_value = last.note_value

\* the subcategory was tapped, a Load then brought a document without it, and
\* SaveNote("hi") followed
C16_Witness ==
    /\ NoteOnSelection
    /\ ~SelectionPresent
    /\ last.selection.id = S_Virtual_Machines
    /\ last.note_value = <<"h", "i">>
    /\ ui.rendered_notes = <<"h", "i">>
    /\ ~HasNote(elements)

\* the element carries the highlighted marker
Highlighted(elem) ==
    "classes" \in DOMAIN elem /\ in_list(S_highlighted, split(elem.classes))

\* the element is a node whose label holds the query, letter case aside
LabelMatches(query, elem) ==
    /\ is_node(elem)
    /\ contains(lower(query), lower(elem.data.label))

\* the last dispatch was a search whose query is in the label of some node
SearchWithMatch ==
    /\ last.trigger \in SearchTriggers
    /\ last.search_value # <<>>
    /\ \E i \in 1..Len(last.pre.elements) :
          LabelMatches(last.search_value, last.pre.elements[i])

\* the last dispatch was a search with an empty query or with no matching label
SearchWithoutMatch ==
    /\ last.trigger \in SearchTriggers
    /\ \/ last.search_value = <<>>
       \/ \A i \in 1..Len(last.pre.elements) :
             ~LabelMatches(last.search_value, last.pre.elements[i])

\* C17: after a search with a non-empty query that matches some label, the
\* highlighted elements are exactly the nodes whose pre-trigger label holds the
\* query case-insensitively, whatever was highlighted before; no edge is.
C17_HighlightIsExactlyTheMatches ==
    SearchWithMatch =>
        /\ Len(elements) = Len(last.pre.elements)
        /\ \A i \in 1..Len(elements) :
              Highlighted(elements[i]) <=> LabelMatches(last.search_value, last.pre.elements[i])
        /\ \A i \in 1..Len(elements) : ~is_node(elements[i]) => ~Highlighted(elements[i])

\* a search that took the marker off one node and put it on another
C17_Witness ==
    /\ SearchWithMatch
    /\ last.trigger = "node-search"
    /\ \E i \in 1..Len(elements), j \in 1..Len(elements) :
          /\ Highlighted(last.pre.elements[i]) /\ ~Highlighted(elements[i])
          /\ ~Highlighted(last.pre.elements[j]) /\ Highlighted(elements[j])
    /\ \E i \in 1..Len(elements) : ~is_node(elements[i])

\* C18: after a search with an empty query, or with a query that matches no
\* label, no element is highlighted and the elements are otherwise as they
\* were; with no match the info is the "no matching nodes" message, and the
\* reducer returns normally.
C18_NoMatchClearsHighlights ==
    SearchWithoutMatch =>
        /\ last.kind = "return"
        /\ \A i \in 1..Len(elements) : ~Highlighted(elements[i])
        /\ Len(elements) = Len(last.pre.elements)
        /\ \A i \in 1..Len(elements) :
              /\ DOMAIN elements[i] = DOMAIN last.pre.elements[i]
              /\ elements[i].data = last.pre.elements[i].data
              /\ "classes" \in DOMAIN elements[i] =>
                    split(elements[i].classes) =
                        SelectSeq(split(last.pre.elements[i].classes),
                                  LAMBDA c : c # S_highlighted)
        /\ last.search_value # <<>> => ui.node_info = Info("No matching nodes found.")

\* a query that matches nothing, on a document with highlighted nodes
C18_Witness ==
    /\ SearchWithoutMatch
    /\ last.search_value = <<"z", "z">>
    /\ HasHighlight(last.pre.elements)
    /\ ~HasHighlight(elements)
    /\ ui.node_info = Info("No matching nodes found.")

\* C19: the same query dispatched again, on the document the first dispatch
\* returned, returns that document again, so the same highlighted set.
C19_SearchIsIdempotent ==
    last.trigger = "node-search-again" =>
        /\ Document = last.pre
        /\ \A i \in 1..Len(elements) :
              Highlighted(elements[i]) <=> Highlighted(last.pre.elements[i])
        /\ ui = last.pre_ui

\* a matching query dispatched a second time
C19_Witness ==
    /\ last.trigger = "node-search-again"
    /\ last.prior_query = <<last.search_value>>
    /\ SearchWithMatch
    /\ HasHighlight(elements)
    /\ \E i \in 1..Len(elements) : is_node(elements[i]) /\ ~Highlighted(elements[i])

\* the labels of the scenario: "Virtual Machines" and "App Services"
ScenarioLabels ==
    { replace_char(S_Virtual_Machines, "_", " "), replace_char(S_App_Services, "_", " ") }

\* a search for "vm" on the document of the scenario
SearchedVm ==
    /\ last.trigger = "node-search"
    /\ last.search_value = <<"v", "m">>
    /\ NodeLabels(last.pre.elements) = ScenarioLabels

\* a search for "" right after the search for "vm"
ClearedAfterVm ==
    /\ last.trigger = "node-search"
    /\ last.search_value = <<>>
    /\ last.prior_query = << <<"v", "m">> >>
    /\ NodeLabels(last.pre.elements) = ScenarioLabels

\* C20 as stated: "vm" highlights "Virtual Machines" and nothing else, and ""
\* dispatched next leaves no node highlighted.
C20_Original ==
    /\ SearchedVm =>
          \A i \in 1..Len(elements) :
              Highlighted(elements[i]) <=>
                  elements[i].data.label = replace_char(S_Virtual_Machines, "_", " ")
    /\ ClearedAfterVm => ~HasHighlight(elements)

\* C20: "vm" is in neither "virtual machines" nor "app services": the search
\* highlights no node and reports that no node matches; "" dispatched next
\* leaves no node highlighted.
C20_VmMatchesNothing ==
    /\ SearchedVm =>
          /\ ~HasHighlight(elements)
          /\ ui.node_info = Info("No matching nodes found.")
    /\ ClearedAfterVm =>
          /\ ~HasHighlight(elements)
          /\ ui.node_info = Info("Search cleared. All nodes are visible.")

\* "vm" and then "" were searched on the two nodes, one of them highlighted before
C20_Witness ==
    /\ ClearedAfterVm
    /\ ~HasHighlight(elements)
    /\ Len(elements) = 2

\* a is a run of consecutive characters of b
IsSubstring(a, b) ==
    \E i \in 0..Len(b), j \in 0..Len(b) : i <= j /\ SubSeq(b, i + 1, j) = a

\* the positions of the labels that hold the query, letter case aside
MatchPositions(query, labels) ==
    { i \in 1..Len(labels) : IsSubstring(lower(query), lower(labels[i])) }

\* the k-th smallest member of a set of positions
KthPosition(S, k) == CHOOSE i \in S : Cardinality({ j \in S : j <= i }) = k

MatchDone == call.fn = "perform_fuzzy_search" /\ call.done

\* C21: match("", L) is empty; match(q, L) = match(lowercase(q), L); the result
\* is the sub-list of L, in the order of L, of exactly the labels that hold
\* lowercase(q) as a substring of their lowercase.
C21_MatchIsSubstringFilter ==
    MatchDone =>
        /\ call.search_value = <<>> => call.result = <<>>
        /\ call.result = perform_fuzzy_search(lower(call.search_value), call.all_labels)
        /\ call.search_value # <<>> =>
              /\ Len(call.result) =
                    Cardinality(MatchPositions(call.search_value, call.all_labels))
              /\ \A k \in 1..Len(call.result) :
                    call.result[k] =
                        call.all_labels[KthPosition(
                            MatchPositions(call.search_value, call.all_labels), k)]

\* an upper-case query that picks two labels of different case out of a list,
\* in the order of the list
C21_Witness ==
    /\ MatchDone
    /\ call.search_value = <<"A", "B">>
    /\ call.all_labels = << <<"B", " ", "a", "B">>, <<"A", "b">> >>
    /\ call.result = call.all_labels

\* ---- C22 ----
\* C22: a node tap returns the elements, the zoom and the pan it was given
\* and makes no call to the store, whatever the payload (complete, with
\* fields missing, or empty).
C22_NodeTapKeepsDocument ==
    last.trigger = "cytoscape-graph" =>
        /\ last.kind = "return"
        /\ Document = last.pre
        /\ last.calls = <<>>
        /\ db = last.pre_db

\* a payload without label, description and notes was tapped on a page that
\* is zoomed and panned, and the panel shows the fallback texts
C22_Witness ==
    /\ last.trigger = "cytoscape-graph"
    /\ DOMAIN last.selection = {"id"}
    /\ ui.node_info.kind = "Div"
    /\ ui.node_info.label = <<"N", "o", " ", "L", "a", "b", "e", "l">>
    /\ zoom # 100
    /\ pan # [x |-> 0, y |-> 0]
    /\ elements # <<>>

\* ---- C23 ----
\* C23: for every trigger and every shape of the inputs the callback returns
\* its outputs (or prevents the update); no error leaves it.
C23_NeverRaises == last.kind # "raise"

\* ---- C24 ----
\* the search met an element without data or a node without label
SearchFailed ==
    /\ last.trigger = "node-search"
    /\ last.search_value # <<>>
    /\ \E i \in 1..Len(last.pre.elements) :
          \/ "data" \notin DOMAIN last.pre.elements[i]
          \/ /\ "source" \notin DOMAIN last.pre.elements[i].data
             /\ "label" \notin DOMAIN last.pre.elements[i].data

\* the stored record could not be decoded
LoadFailedToDecode ==
    /\ last.trigger = "load-state"
    /\ last.n_clicks > 0
    /\ last.fault = "none"
    /\ last.pre_db = CorruptStore.db

\* the tapped payload's notes were None
TapFailed ==
    /\ last.trigger = "cytoscape-graph"
    /\ "tapped_notes" \in last.absent
    /\ DOMAIN last.selection # {}
    /\ "notes" \in DOMAIN last.selection

ErrorTexts ==
    { "An error occurred during the search.",
      "An error occurred while processing the node tap." }

\* C24: when a step of a dispatch fails with an exception (the search on a
\* node without label, the load of a record that cannot be decoded), the
\* document returned is the pre-trigger document, highlight markers
\* included, and a message explains the failure.
C24_FailurePreservesDocument ==
    (SearchFailed \/ LoadFailedToDecode \/ TapFailed) =>
        /\ last.kind = "return"
        /\ Document = last.pre
        /\ ui.node_info.kind \in ErrorTexts

\* ---- C25 ----
StoreReadOnlyTriggers ==
    {"zoom-in", "zoom-out", "reset-zoom", "load-state", "node-search", "cytoscape-graph",
     "none", "startup"}

HasSelection == DOMAIN last.selection # {}

SavedNow == last.calls # <<>> /\ last.calls[1].op = "save" /\ last.fault = "none"

\* C25: the stored content changes only in a Save dispatch or a SaveNote
\* dispatch with a selection: the zoom buttons, Load, the search box, a node
\* tap and SaveNote without a selection leave it as it was; after a
\* successful save the store holds the saved snapshot and nothing else.
C25_StoreChangesOnlyOnSave ==
    /\ (\/ last.trigger \in StoreReadOnlyTriggers
        \/ last.trigger = "save-note" /\ ~HasSelection) => db = last.pre_db
    /\ (last.trigger # "init" /\ db # last.pre_db) =>
          /\ last.trigger \in {"save-state", "save-note"}
          /\ last.trigger = "save-note" => HasSelection
          /\ SavedNow
    /\ SavedNow =>
          /\ Len(db.rows) = 1
          /\ db.rows[1].state = json_dumps(last.calls[1].arg)
          /\ \A i \in 1..Len(last.pre_db.rows) : db.rows[1].id # last.pre_db.rows[i].id

\* a save has replaced the record of an earlier save by a different snapshot
C25_Witness ==
    /\ last.trigger = "save-state"
    /\ SavedNow
    /\ last.pre_db.rows # <<>>
    /\ Len(db.rows) = 1
    /\ db.rows[1].state # last.pre_db.rows[1].state

\* ---- C26 ----
NodeIds(doc) == { doc[i].data.id : i \in { j \in 1..Len(doc) : is_node(doc[j]) } }

Started == last.trigger \in {"init", "startup"}

BuiltDocument ==
    [elements |-> load_graph_elements(central_node, primary_nodes, subnodes),
     zoom |-> 100,
     pan |-> [x |-> 0, y |-> 0]]

\* C28: when the application has started, the document is the snapshot last
\* saved if the store holds one and can be read, and otherwise (nothing
\* stored, or the store cannot be read or its record not decoded) the
\* builder's output with zoom 1.0 and pan {0, 0}.
C28_StartSeedsFromStoreOrBuilder ==
    Started =>
        /\ (committed # <<>> /\ last.fault = "none") => Document = committed
        /\ (db.rows = <<>> \/ last.fault # "none" \/ db = CorruptStore.db)
              => Document = BuiltDocument

\* the application was started again after a save of this run and shows the
\* saved document, which is not the one on the page before
C28_Witness ==
    /\ last.trigger = "startup"
    /\ last.fault = "none"
    /\ committed # <<>>
    /\ committed # EarlierSnapshot
    /\ Document = committed
    /\ Document # BuiltDocument
    /\ last.pre # Document

\* ---- C27 ----
BuildDone == call.fn = "load_graph_elements" /\ call.done

\* the subcategories of a taxonomy as (parent id, child id) pairs
SubPairsOf(subs) ==
    UNION { { [parent |-> subs[i].k, child |-> subs[i].v[j].k] : j \in 1..Len(subs[i].v) } :
            i \in 1..Len(subs) }

NodesOf(doc) == SelectSeq(doc, is_node)
EdgesOf(doc) == SelectSeq(doc, LAMBDA e : ~is_node(e))

NodeWithId(doc, id) == { i \in 1..Len(doc) : is_node(doc[i]) /\ doc[i].data.id = id }
EdgeBetween(doc, source, target) ==
    { i \in 1..Len(doc) : /\ ~is_node(doc[i])
                           /\ doc[i].data.source = source
                           /\ doc[i].data.target = target }

\* C27: the builder, on a central node, n categories and m subcategories in
\* all, returns 1 + n + m nodes and n + m edges; there is exactly one edge
\* from the central node to every category and one from a category to each of
\* its subcategories, with id source_to_target; the i-th category (from 0) is
\* coloured palette[i mod 10] and a subcategory lighten(its parent's colour, 0.6).
C27_BuilderShape ==
    BuildDone =>
        LET doc == call.result
            central == call.taxonomy.central_node
            P == call.taxonomy.primary_nodes
            pairs == SubPairsOf(call.taxonomy.subnodes)
            n == Len(P)
            m == Cardinality(pairs)
        IN  /\ Len(NodesOf(doc)) = 1 + n + m
            /\ Len(EdgesOf(doc)) = n + m
            /\ Cardinality(NodeWithId(doc, central.id)) = 1
            /\ \A i \in 1..n :
                  /\ Cardinality(NodeWithId(doc, P[i].k)) = 1
                  /\ \A x \in NodeWithId(doc, P[i].k) :
                        doc[x].data.color = PRIMARY_NODE_COLORS[((i - 1) % 10) + 1]
                  /\ Cardinality(EdgeBetween(doc, central.id, P[i].k)) = 1
                  /\ \A e \in EdgeBetween(doc, central.id, P[i].k) :
                        doc[e].data.id = central.id \o <<"_", "t", "o", "_">> \o P[i].k
            /\ \A pair \in pairs :
                  /\ Cardinality(NodeWithId(doc, pair.child)) = 1
                  /\ \A x \in NodeWithId(doc, pair.child), y \in NodeWithId(doc, pair.parent) :
                        doc[x].data.color = lighten_color(doc[y].data.color, 6, 10)
                  /\ Cardinality(EdgeBetween(doc, pair.parent, pair.child)) = 1
                  /\ \A e \in EdgeBetween(doc, pair.parent, pair.child) :
                        doc[e].data.id = pair.parent \o <<"_", "t", "o", "_">> \o pair.child
            /\ (n = 1 /\ P[1].k = S_Compute /\ pairs = {[parent |-> S_Compute, child |-> S_Functions]})
                  => /\ Len(NodesOf(doc)) = 3 /\ Len(EdgesOf(doc)) = 2
                     /\ \A x \in NodeWithId(doc, S_Compute) :
                           doc[x].data.color = PRIMARY_NODE_COLORS[1]

\* a taxonomy of eleven categories, with subcategories, has been built: the
\* eleventh category wraps round to the first palette colour
C27_Witness ==
    /\ BuildDone
    /\ Len(call.taxonomy.primary_nodes) = 11
    /\ Cardinality(SubPairsOf(call.taxonomy.subnodes)) >= 11
    /\ \E x \in NodeWithId(call.result, call.taxonomy.primary_nodes[11].k) :
          call.result[x].data.color = PRIMARY_NODE_COLORS[1]
    /\ Len(call.result) = 2 * (11 + Cardinality(SubPairsOf(call.taxonomy.subnodes))) + 1

\* ---- C29 ----
LightenDone == call.fn = "lighten_color" /\ call.done

\* the digits of a colour string: the string without one leading '#'
DigitsOf(c) == IF c # <<>> /\ Head(c) = "#" THEN Tail(c) ELSE c

AllHex(d) == \A i \in 1..Len(d) : IsHexDigit(d[i])

Valid6(c) == Len(DigitsOf(c)) = 6 /\ AllHex(DigitsOf(c))

upper_char(c) ==
    IF \E i \in 1..26 : LowerCase[i] = c
    THEN UpperCase[CHOOSE i \in 1..26 : LowerCase[i] = c] ELSE c

upper(s) == [i \in 1..Len(s) |-> upper_char(s[i])]

White == <<"#", "F", "F", "F", "F", "F", "F">>

\* C29 as stated: for a valid six-digit colour c, lighten(c, 0) is the string
\* c itself and lighten(c, 1) is "#FFFFFF"
C29_Original ==
    (LightenDone /\ Valid6(call.hex_color)) =>
        /\ call.factor.num = 0 => call.result = call.hex_color
        /\ call.factor.num = call.factor.den => call.result = White

\* C29 (amended): for a valid six-digit colour c, lighten(c, 0) is the colour
\* c written with a leading '#' and upper-case digits (the string c itself
\* only when c is written that way), and lighten(c, 1) is "#FFFFFF"
C29_FactorZeroAndOne ==
    (LightenDone /\ Valid6(call.hex_color)) =>
        /\ call.factor.num = 0 => call.result = <<"#">> \o upper(DigitsOf(call.hex_color))
        /\ call.factor.num = call.factor.den => call.result = White

\* a lower-case colour has been lightened by 0 and came back in upper case
C29_Witness ==
    /\ LightenDone
    /\ call.hex_color = <<"#", "1", "f", "7", "7", "b", "4">>
    /\ call.factor.num = 0
    /\ call.result = <<"#", "1", "F", "7", "7", "B", "4">>

\* ---- C30 ----
Malformed(c) == Len(DigitsOf(c)) \notin {3, 6} \/ ~AllHex(DigitsOf(c))

\* C30: for a malformed colour (a non-hex digit, or a digit count other than
\* 3 or 6) lighten hands back the original colour string unchanged
C30_MalformedReturnsOriginal ==
    (LightenDone /\ Malformed(call.hex_color)) => call.result = call.hex_color

\* ---- C32 ----
IdsOf(elems) == [i \in 1..Len(elems) |-> elems[i].data.id]

NotesOf(elems) == [i \in 1..Len(elems) |-> get(elems[i].data, "notes", <<>>)]

MarkersOf(elems) == [i \in 1..Len(elems) |-> Highlighted(elems[i])]

\* C32: over any sequence of dispatches the pan changes only in a Load; the
\* zoom only in a zoom button's dispatch or a Load; the notes of a node only
\* in SaveNote or Load; the highlight markers only in a search or a Load;
\* and the sequence of element ids only in a Load.
C32_EachFieldHasItsTriggers ==
    last.trigger \notin {"init", "startup"} =>
        /\ pan # last.pre.pan => last.trigger = "load-state"
        /\ zoom # last.pre.zoom => last.trigger \in ZoomTriggers \cup {"load-state"}
        /\ NotesOf(elements) # NotesOf(last.pre.elements)
              => last.trigger \in {"save-note", "load-state"}
        /\ MarkersOf(elements) # MarkersOf(last.pre.elements)
              => last.trigger \in SearchTriggers \cup {"load-state"}
        /\ IdsOf(elements) # IdsOf(last.pre.elements) => last.trigger = "load-state"

\* a zoom button changed the zoom of a panned document that holds a note and
\* highlights, and changed nothing else
C32_Witness ==
    /\ last.trigger = "zoom-out"
    /\ zoom # last.pre.zoom
    /\ pan = [x |-> 10, y |-> -5]
    /\ pan = last.pre.pan
    /\ HasNote(elements)
    /\ HasHighlight(elements)
    /\ elements = last.pre.elements

\* ---- C33 ----
\* C33: a SaveNote dispatch with a node selected opens the note-saved alert
\* and makes exactly one save call, whether or not an element has the
\* selected id and whether or not the save succeeds; the saved alert stays
\* closed.  (Inputs as the page supplies them; None inputs are C23's case.)
C33_SaveNoteAlertsAndSavesOnce ==
    (last.trigger = "save-note" /\ HasSelection) =>
        /\ last.kind = "return"
        /\ ui.note_save_alert
        /\ ~ui.save_alert
        /\ Len(last.calls) = 1
        /\ last.calls[1].op = "save"

\* the selected id is on no element and the store refused the snapshot, and
\* the note-saved alert is open all the same
C33_Witness ==
    /\ last.trigger = "save-note"
    /\ HasSelection
    /\ ~SelectionPresent
    /\ last.fault # "none"
    /\ db = last.pre_db
    /\ ui.note_save_alert
    /\ Len(last.calls) = 1

\* ---- C34 ----
\* C34: after a successful Save (or the save a SaveNote makes) followed by
\* any number of zoom, search and node-tap dispatches in the same session
\* and no other save, a Load returns exactly the elements, zoom and pan that
\* were saved; the zoom and highlight changes made since are discarded.
C34_LoadRestoresWhatWasSaved ==
    (/\ last.trigger = "load-state"
     /\ last.fault = "none"
     /\ last.pre_view_since_save) =>
        /\ last.kind = "return"
        /\ ui.load_alert
        /\ Document = committed
        /\ db = last.pre_db

\* the zoom was changed after the save, and the Load put the saved zoom back
C34_Witness ==
    /\ last.trigger = "load-state"
    /\ last.fault = "none"
    /\ last.pre_view_since_save
    /\ last.pre.zoom # committed.zoom
    /\ last.pre.elements = committed.elements
    /\ Document = committed

\* ---- C31 ----
NoAlerts == ~ui.save_alert /\ ~ui.load_alert /\ ~ui.note_save_alert

\* C31: a dispatch applies the rule of one trigger at most, also when
\* several inputs are reported as fired: what it returns and what it does to
\* the store is what the rule of the first reported input alone allows, at
\* most one store call is made, and a dispatch that returns nothing changes
\* nothing.
C31_OneRulePerDispatch ==
    last.trigger # "init" =>
        /\ Len(last.calls) <= 1
        /\ last.kind # "return" => (Document = last.pre /\ ui = last.pre_ui /\ db = last.pre_db)
        /\ (last.kind = "return" /\ last.trigger \in ZoomTriggers) =>
              /\ elements = last.pre.elements /\ pan = last.pre.pan
              /\ last.calls = <<>> /\ db = last.pre_db /\ NoAlerts
        /\ (last.kind = "return" /\ last.trigger = "load-state") =>
              /\ last.calls = <<[op |-> "load", arg |-> <<>>]>> /\ db = last.pre_db
              /\ ~ui.save_alert /\ ~ui.note_save_alert
        /\ (last.kind = "return" /\ last.trigger = "save-state") =>
              /\ Document = last.pre
              /\ Len(last.calls) = 1 /\ last.calls[1].op = "save"
              /\ ~ui.load_alert /\ ~ui.note_save_alert
        /\ (last.kind = "return" /\ last.trigger = "save-note") =>
              /\ zoom = last.pre.zoom /\ pan = last.pre.pan
              /\ \A i \in 1..Len(last.calls) : last.calls[i].op = "save"
              /\ ~ui.save_alert /\ ~ui.load_alert
        /\ (last.kind = "return" /\ last.trigger = "node-search") =>
              /\ zoom = last.pre.zoom /\ pan = last.pre.pan
              /\ last.calls = <<>> /\ db = last.pre_db /\ NoAlerts
        /\ (last.kind = "return" /\ last.trigger = "cytoscape-graph") =>
              /\ Document = last.pre
              /\ last.calls = <<>> /\ db = last.pre_db /\ NoAlerts

\* zoom-in and save-state were reported together: the zoom rule was applied
\* and nothing was saved
C31_Witness ==
    /\ last.triggered = <<"zoom-in", "save-state">>
    /\ last.kind = "return"
    /\ zoom # last.pre.zoom
    /\ last.calls = <<>>
    /\ db = last.pre_db
    /\ ~ui.save_alert

====
